---------------------------- MODULE Spec2Model ----------------------------
(***************************************************************************)
(* BroLang tool chain: the code generator (codegen.cpp), the parser        *)
(* (parser.cpp) and the RohitVM virtual machine (RohitVM.cpp).             *)
(*                                                                         *)
(* A Program is compiled by Codegen::generate into a list of Instructions, *)
(* VM::loadProgram writes the list as bytes into the 64 KiB memory and     *)
(* VM::execute runs the fetch-decode-execute loop on it.                   *)
(***************************************************************************)
EXTENDS Integers, Sequences, FiniteSets, TLC

VARIABLES
    tokens,     \* Parser::tokens, the token stream handed to the parser
    program,    \* the Program (AST) handed to Codegen::generate
    cg,         \* the Codegen object: instructions, symbolTable, labelTargets,
                \* labelPlaceholders, nextRegister, labelCounter
    k,          \* generate's loop position in program.statements (0-based)
    bytecode,   \* the list returned by the last completed generate call
    artifact,   \* the tuples Emitter::writeToFile wrote, in order
    cpu,        \* VM::cpu.r : ax, bx, cx, dx, sp, ip, flags
    memory,     \* VM::memory, as the finite map of its non-zero bytes
    breakLine,  \* VM::breakLine
    stdout,     \* the values printed by PRN, in order (first MaxOutput only)
    stderr,     \* the message of the fatal VM error, "" when none
    console,    \* the lines VM::execute wrote to std::cout, in order (the
                \* lines of the first MaxOutput PRNs only)
    cli,        \* the compiler process: its arguments, what the file system
                \* grants it, whether it showed the usage, its exit status
    lexer,      \* the Lexer object: src, the source text as the sequence of
                \* its characters, and pos, the number of characters consumed
    pc          \* where the tool chain stands

vars == <<tokens, program, cg, k, bytecode, artifact, cpu, memory, breakLine, stdout, stderr, console, cli, lexer, pc>>

(***************************************************************************)
(* Machine words                                                           *)
(***************************************************************************)
Word == 65536       \* uint16_t registers and operands wrap modulo 2^16
Byte == 256         \* uint8_t memory cells
MemorySize == 65536 \* Memory::SIZE

\* A register that sticks at its largest and smallest value instead of wrapping
U16Saturating(x) == IF x >= Word THEN Word - 1 ELSE IF x < 0 THEN 0 ELSE x

U16(x) == x % Word

(***************************************************************************)
(* Opcodes (enum class Opcode : uint8_t)                                   *)
(***************************************************************************)
NOP    == 1
HLT    == 2
MOV    == 8
MOV_BX == 9
MOV_CX == 10
MOV_DX == 11
MOV_SP == 12
STE    == 16
CLE    == 17
STG    == 18
CLG    == 19
STH    == 20
CLH    == 21
STL    == 22
CLL    == 23
PUSH   == 26
POP    == 27
ADD    == 32
SUB    == 33
MUL    == 34
DIV    == 35
PRN    == 48
JMP    == 49
JZ     == 50
JNZ    == 51

Opcodes == {NOP, HLT, MOV, MOV_BX, MOV_CX, MOV_DX, MOV_SP, STE, CLE, STG, CLG,
            STH, CLH, STL, CLL, PUSH, POP, ADD, SUB, MUL, DIV, PRN, JMP, JZ, JNZ}

JumpOpcodes == {JMP, JZ, JNZ}

\* struct Instruction { Opcode op; uint16_t a1 = 0; uint16_t a2 = 0; }
Instruction(op, a1) == [op |-> op, a1 |-> a1, a2 |-> 0]

\* A size table that gives a byte outside the table one byte as well
getInstructionSizeNeverZero(op) ==
    IF op \in {MOV, MOV_BX, MOV_CX, MOV_DX, MOV_SP, PUSH, POP, JMP, JZ, JNZ} THEN 3 ELSE 1

\* A size table that gives every opcode one byte
getInstructionSizeOne(op) == IF op \in Opcodes THEN 1 ELSE 0

\* VM::getInstructionSize: a std::map looked up with operator[], which yields
\* the value-initialised 0 for an opcode that is not in the table.
getInstructionSize(op) ==
    IF op \in {MOV, MOV_BX, MOV_CX, MOV_DX, MOV_SP, PUSH, POP, JMP, JZ, JNZ} THEN 3
    ELSE IF op \in Opcodes THEN 1
    ELSE 0

(***************************************************************************)
(* AST (ast.h): the nodes the parser builds and the code generator reads   *)
(***************************************************************************)
NullExpr == [kind |-> "Null"]
NumberExpr(v) == [kind |-> "Number", value |-> v]
VariableExpr(n) == [kind |-> "Variable", name |-> n]
BinaryExpr(o, l, r) == [kind |-> "Binary", op |-> o, left |-> l, right |-> r]

LetStatement(n, v) == [kind |-> "Let", name |-> n, value |-> v]
PrintStatement(e) == [kind |-> "Print", expr |-> e]
IfStatement(c, t, e) ==
    [kind |-> "If", condition |-> c, thenBranch |-> t, elseBranch |-> e]
WhileStatement(c, b) == [kind |-> "While", condition |-> c, body |-> b]

\* struct Program { std::vector<StmtPtr> statements; }
Program(stmts) == [statements |-> stmts]

(***************************************************************************)
(* Finite maps (std::map)                                                  *)
(***************************************************************************)
EmptyMap == [x \in {} |-> 0]
MapPut(f, key, v) == [x \in DOMAIN f \cup {key} |-> IF x = key THEN v ELSE f[x]]

(***************************************************************************)
(* Codegen (codegen.cpp)                                                   *)
(***************************************************************************)
\* A Codegen object as constructed: the member initialisers of codegen.h
FreshCodegen ==
    [instructions |-> <<>>, symbolTable |-> EmptyMap, labelTargets |-> EmptyMap,
     labelPlaceholders |-> <<>>, nextRegister |-> 1, labelCounter |-> 0]

\* A generate that clears the instruction list and the label tables only
ClearCodegenKeepingSymbols(c) ==
    [c EXCEPT !.instructions = <<>>, !.labelTargets = EmptyMap,
              !.labelPlaceholders = <<>>]

\* generate's first six statements, on a Codegen object c with any history
ClearCodegen(c) ==
    [instructions |-> <<>>, symbolTable |-> EmptyMap, labelTargets |-> EmptyMap,
     labelPlaceholders |-> <<>>, nextRegister |-> 1, labelCounter |-> 0]

emit(c, instr) == [c EXCEPT !.instructions = Append(@, instr)]

\* A newLabel that hands out the same label again and again
newLabelReused(c) == c

\* newLabel returns labelCounter and then increments it
newLabel(c) == [c EXCEPT !.labelCounter = @ + 1]

\* A markLabel that records the index after the next instruction
markLabelNext(c, labelId) ==
    [c EXCEPT !.labelTargets = MapPut(@, labelId, Len(c.instructions) + 1)]

\* A markLabel that records nothing
markLabelDropped(c, labelId) == c

\* labelTargets[labelId] = instructions.size()
markLabel(c, labelId) ==
    [c EXCEPT !.labelTargets = MapPut(@, labelId, Len(c.instructions))]

emitJumpPlaceholder(c, jumpOpcode, labelId) ==
    emit([c EXCEPT !.labelPlaceholders = Append(@, <<Len(c.instructions), labelId>>)],
         Instruction(jumpOpcode, 0))

\* patchJumps: the placeholders from position i (1-based) on
RECURSIVE patchFrom(_, _)
patchFrom(c, i) ==
    IF i > Len(c.labelPlaceholders) THEN c
    ELSE LET index   == c.labelPlaceholders[i][1]
             labelId == c.labelPlaceholders[i][2]
         IN  IF labelId \in DOMAIN c.labelTargets
             THEN patchFrom([c EXCEPT !.instructions[index + 1].a1 =
                                          U16(c.labelTargets[labelId])], i + 1)
             ELSE patchFrom(c, i + 1)

patchJumps(c) == patchFrom(c, 1)

\* A genExpression that looks an unbound name up with symbolTable[name],
\* which binds it to index 0, and reads it like a bound one
RECURSIVE genExpressionBinding(_, _)
genExpressionBinding(c, expr) ==
    CASE expr.kind = "Number" ->
            emit(c, Instruction(MOV, U16(expr.value)))
      [] expr.kind = "Variable" ->
            IF expr.name \notin DOMAIN c.symbolTable
            THEN emit(emit([c EXCEPT !.symbolTable = MapPut(@, expr.name, 0)],
                           Instruction(PUSH, 0)), Instruction(POP, 0))
            ELSE emit(emit(c, Instruction(PUSH, c.symbolTable[expr.name])),
                      Instruction(POP, 0))
      [] expr.kind = "Binary" ->
            LET c1 == genExpressionBinding(c, expr.left)
                c2 == emit(c1, Instruction(PUSH, 0))
                c3 == genExpressionBinding(c2, expr.right)
                c4 == emit(c3, Instruction(PUSH, 0))
                c5 == emit(c4, Instruction(POP, 1))
                c6 == emit(c5, Instruction(POP, 0))
            IN  CASE expr.op = "Add" -> emit(c6, Instruction(ADD, 0))
                  [] expr.op = "Sub" -> emit(c6, Instruction(SUB, 0))
                  [] expr.op = "Mul" -> emit(c6, Instruction(MUL, 0))
                  [] expr.op = "Div" -> emit(c6, Instruction(DIV, 0))
                  [] expr.op = "Equal" ->
                        emit(emit(c6, Instruction(SUB, 0)), Instruction(STE, 0))
                  [] expr.op = "Greater" ->
                        emit(emit(c6, Instruction(SUB, 0)), Instruction(STG, 0))
                  [] expr.op = "Less" ->
                        emit(emit(c6, Instruction(SUB, 0)), Instruction(STL, 0))
                  [] OTHER -> c6
      [] OTHER -> c

RECURSIVE genExpression(_, _)
genExpression(c, expr) ==
    CASE expr.kind = "Number" ->
            emit(c, Instruction(MOV, U16(expr.value)))
      [] expr.kind = "Variable" ->
            IF expr.name \notin DOMAIN c.symbolTable
            THEN emit(c, Instruction(MOV, 0))
            ELSE emit(emit(c, Instruction(PUSH, c.symbolTable[expr.name])),
                      Instruction(POP, 0))
      [] expr.kind = "Binary" ->
            LET c1 == genExpression(c, expr.left)
                c2 == emit(c1, Instruction(PUSH, 0))
                c3 == genExpression(c2, expr.right)
                c4 == emit(c3, Instruction(PUSH, 0))
                c5 == emit(c4, Instruction(POP, 1))
                c6 == emit(c5, Instruction(POP, 0))
            IN  CASE expr.op = "Add" -> emit(c6, Instruction(ADD, 0))
                  [] expr.op = "Sub" -> emit(c6, Instruction(SUB, 0))
                  [] expr.op = "Mul" -> emit(c6, Instruction(MUL, 0))
                  [] expr.op = "Div" -> emit(c6, Instruction(DIV, 0))
                  [] expr.op = "Equal" ->
                        emit(emit(c6, Instruction(SUB, 0)), Instruction(STE, 0))
                  [] expr.op = "Greater" ->
                        emit(emit(c6, Instruction(SUB, 0)), Instruction(STG, 0))
                  [] expr.op = "Less" ->
                        emit(emit(c6, Instruction(SUB, 0)), Instruction(STL, 0))
                  [] OTHER -> c6
      [] OTHER -> c

\* A prelude that sets the Equal flag and never clears it
emitPreludeKeepsEqual(c) ==
    LET c1 == emit(c, Instruction(PUSH, 0))
        c2 == emit(c1, Instruction(POP, 1))
        c3 == emit(c2, Instruction(MOV, 0))
        c4 == emit(c3, Instruction(SUB, 0))
    IN  emit(c4, Instruction(STE, 0))

\* The six instructions emitted after the condition of an If or a While
emitPrelude(c) ==
    LET c1 == emit(c, Instruction(PUSH, 0))
        c2 == emit(c1, Instruction(POP, 1))
        c3 == emit(c2, Instruction(MOV, 0))
        c4 == emit(c3, Instruction(SUB, 0))
        c5 == emit(c4, Instruction(STE, 0))
    IN  emit(c5, Instruction(CLE, 0))

\* A Let that pushes AX and never pops it into the variable's register
bindLetPushOnly(c, name) ==
    LET isNew == name \notin DOMAIN c.symbolTable
        reg   == IF isNew THEN U16(c.nextRegister) ELSE c.symbolTable[name]
        c1    == IF isNew
                 THEN [c EXCEPT !.nextRegister = @ + 1,
                                !.symbolTable = MapPut(@, name, reg)]
                 ELSE c
    IN  emit(c1, Instruction(PUSH, 0))

\* A Let that takes a new index on every assignment, bound name or not
bindLetAlwaysNew(c, name) ==
    LET reg == U16(c.nextRegister)
        c1  == [c EXCEPT !.nextRegister = @ + 1, !.symbolTable = MapPut(@, name, reg)]
    IN  emit(emit(c1, Instruction(PUSH, 0)), Instruction(POP, reg))

\* A Let that folds the index into the four registers the VM has
bindLetWrapping(c, name) ==
    LET isNew == name \notin DOMAIN c.symbolTable
        reg   == IF isNew THEN c.nextRegister % 4 ELSE c.symbolTable[name]
        c1    == IF isNew
                 THEN [c EXCEPT !.nextRegister = @ + 1,
                                !.symbolTable = MapPut(@, name, reg)]
                 ELSE c
    IN  emit(emit(c1, Instruction(PUSH, 0)), Instruction(POP, reg))

\* The Let branch of genStatement after genExpression: bind or look up the
\* name, then PUSH 0; POP reg
bindLet(c, name) ==
    LET isNew == name \notin DOMAIN c.symbolTable
        reg   == IF isNew THEN U16(c.nextRegister) ELSE c.symbolTable[name]
        c1    == IF isNew
                 THEN [c EXCEPT !.nextRegister = @ + 1,
                                !.symbolTable = MapPut(@, name, reg)]
                 ELSE c
    IN  emit(emit(c1, Instruction(PUSH, 0)), Instruction(POP, reg))

RECURSIVE genStatement(_, _)
RECURSIVE genBlock(_, _, _)
\* for (const auto& s : stmts) genStatement(s), from position i (1-based)
genBlock(c, stmts, i) ==
    IF i > Len(stmts) THEN c
    ELSE genBlock(genStatement(c, stmts[i]), stmts, i + 1)

genStatement(c, stmt) ==
    CASE stmt.kind = "Let" ->
            bindLet(genExpression(c, stmt.value), stmt.name)
      [] stmt.kind = "Print" ->
            emit(genExpression(c, stmt.expr), Instruction(PRN, 0))
      [] stmt.kind = "If" ->
            LET c1        == emitPrelude(genExpression(c, stmt.condition))
                elseLabel == c1.labelCounter
                c2        == newLabel(c1)
                endLabel  == c2.labelCounter
                c3        == newLabel(c2)
                c4        == emitJumpPlaceholder(c3, JZ, elseLabel)
                c5        == genBlock(c4, stmt.thenBranch, 1)
                c6        == emitJumpPlaceholder(c5, JMP, endLabel)
                c7        == markLabel(c6, elseLabel)
                c8        == genBlock(c7, stmt.elseBranch, 1)
            IN  markLabel(c8, endLabel)
      [] stmt.kind = "While" ->
            LET condLabel == c.labelCounter
                c1        == newLabel(c)
                endLabel  == c1.labelCounter
                c2        == newLabel(c1)
                c3        == markLabel(c2, condLabel)
                c4        == emitPrelude(genExpression(c3, stmt.condition))
                c5        == emitJumpPlaceholder(c4, JZ, endLabel)
                c6        == genBlock(c5, stmt.body, 1)
                c7        == emitJumpPlaceholder(c6, JMP, condLabel)
            IN  markLabel(c7, endLabel)
      [] OTHER -> c

(***************************************************************************)
(* Parser (parser.cpp)                                                     *)
(***************************************************************************)
\* struct Token { TokenType type; std::string text; }
Token(type, text) == [type |-> type, text |-> text]

(***************************************************************************)
(* Lexer (lexer.cpp)                                                       *)
(***************************************************************************)
\* Lexer::Lexer(source): pos = 0
Lexer(source) == [src |-> source, pos |-> 0]

\* std::isspace, std::isdigit, std::isalpha, std::isalnum in the "C" locale,
\* on the characters the model writes
Whitespace == {" ", "\t", "\n", "\r", "\f"}
Digits == {"0", "1", "2", "3", "4", "5", "6", "7", "8", "9"}
Letters == {"a", "b", "c", "d", "e", "f", "g", "h", "i", "j", "k", "l", "m",
            "n", "o", "p", "q", "r", "s", "t", "u", "v", "w", "x", "y", "z",
            "A", "B", "X", "Z"}

\* What peek returns at the end of the source, the character '\0'
Nul == ""

\* Lexer::peek, at position pos (0-based) of src
peekChar(src, pos) == IF pos < Len(src) THEN src[pos + 1] ELSE Nul

\* Lexer::skipWhitespace: the position of the first character from pos on
\* that is no whitespace
RECURSIVE skipWhitespace(_, _)
skipWhitespace(src, pos) ==
    IF peekChar(src, pos) \in Whitespace THEN skipWhitespace(src, pos + 1) ELSE pos

\* while (std::isalnum(peek())) advance(), and the same with isdigit: the
\* position of the first character from pos on that is not in class
RECURSIVE scanWhile(_, _, _)
scanWhile(src, pos, class) ==
    IF peekChar(src, pos) \in class THEN scanWhile(src, pos + 1, class) ELSE pos

\* The keywords of Lexer::identifierOrKeyword
keywordType(text) ==
    CASE text = <<"l", "e", "t", "b", "r", "o">> -> "LetBro"
      [] text = <<"i", "f", "b", "r", "o">> -> "IfBro"
      [] text = <<"e", "l", "s", "e", "b", "r", "o">> -> "ElseBro"
      [] text = <<"w", "h", "i", "l", "e", "b", "r", "o">> -> "WhileBro"
      [] text = <<"p", "r", "i", "n", "t", "b", "r", "o">> -> "PrintBro"
      [] OTHER -> "Identifier"

\* Lexer::identifierOrKeyword, from position start: the token and the
\* position behind it
identifierOrKeyword(src, start) ==
    LET end  == scanWhile(src, start, Letters \cup Digits)
        text == SubSeq(src, start + 1, end)
    IN  [token |-> Token(keywordType(text), text), pos |-> end]

\* Lexer::number
number(src, start) ==
    LET end == scanWhile(src, start, Digits)
    IN  [token |-> Token("Number", SubSeq(src, start + 1, end)), pos |-> end]

\* The token types of the one-character symbols
symbolType(c) ==
    CASE c = "+" -> "Plus" [] c = "-" -> "Minus" [] c = "*" -> "Star"
      [] c = "/" -> "Slash" [] c = ";" -> "Semicolon"
      [] c = "(" -> "LParen" [] c = ")" -> "RParen"
      [] c = "{" -> "LBrace" [] c = "}" -> "RBrace"
      [] c = ">" -> "Greater" [] c = "<" -> "Less"

Symbols == {"+", "-", "*", "/", ";", "(", ")", "{", "}", ">", "<"}

\* A nextToken that never looks at the character after a '='
nextTokenAssignOnly(src, pos0) ==
    LET pos == skipWhitespace(src, pos0)
        c   == peekChar(src, pos)
    IN  IF c = Nul THEN [token |-> Token("EndOfFile", <<>>), pos |-> pos]
        ELSE IF c \in Symbols THEN [token |-> Token(symbolType(c), <<c>>), pos |-> pos + 1]
        ELSE IF c = "=" THEN [token |-> Token("Assign", <<"=">>), pos |-> pos + 1]
        ELSE IF c \in Digits THEN number(src, pos)
        ELSE IF c \in Letters THEN identifierOrKeyword(src, pos)
        ELSE [token |-> Token("Invalid", <<c>>), pos |-> pos + 1]

\* Lexer::nextToken with the lexer at position pos0 of src: the token
\* returned and the position the lexer is left at
nextToken(src, pos0) ==
    LET pos == skipWhitespace(src, pos0)
        c   == peekChar(src, pos)
    IN  IF c = Nul THEN [token |-> Token("EndOfFile", <<>>), pos |-> pos]
        ELSE IF c \in Symbols THEN [token |-> Token(symbolType(c), <<c>>), pos |-> pos + 1]
        ELSE IF c = "="
             THEN IF peekChar(src, pos + 1) = "="
                  THEN [token |-> Token("Equal", <<"=", "=">>), pos |-> pos + 2]
                  ELSE [token |-> Token("Assign", <<"=">>), pos |-> pos + 1]
        ELSE IF c \in Digits THEN number(src, pos)
        ELSE IF c \in Letters THEN identifierOrKeyword(src, pos)
        ELSE [token |-> Token("Invalid", <<c>>), pos |-> pos + 1]

NullStmt == [kind |-> "Null"]

\* std::stoi on the text of a Number token (a run of decimal digits)
DigitValue(ch) ==
    CASE ch = "0" -> 0 [] ch = "1" -> 1 [] ch = "2" -> 2 [] ch = "3" -> 3
      [] ch = "4" -> 4 [] ch = "5" -> 5 [] ch = "6" -> 6 [] ch = "7" -> 7
      [] ch = "8" -> 8 [] ch = "9" -> 9

RECURSIVE stoiFrom(_, _, _)
stoiFrom(text, i, acc) ==
    IF i > Len(text) THEN acc
    ELSE stoiFrom(text, i + 1, 10 * acc + DigitValue(text[i]))

stoi(text) == stoiFrom(text, 1, 0)

\* The largest int: std::stoi throws std::out_of_range above it
IntMax == 2147483647

\* Whether the digits of text, read from the i-th on with acc read so far,
\* lead past IntMax
RECURSIVE outOfRangeFrom(_, _, _)
outOfRangeFrom(text, i, acc) ==
    IF i > Len(text) THEN FALSE
    ELSE IF acc > (IntMax - DigitValue(text[i])) \div 10 THEN TRUE
    ELSE outOfRangeFrom(text, i + 1, 10 * acc + DigitValue(text[i]))

\* Whether std::stoi throws std::out_of_range on text
outOfRange(text) == outOfRangeFrom(text, 1, 0)

\* Parser::peek, with pos the 0-based token index
peek(toks, pos) == IF pos < Len(toks) THEN toks[pos + 1] ELSE Token("EndOfFile", <<>>)

isAtEnd(toks, pos) == peek(toks, pos).type = "EndOfFile"

\* Parser::advance: the position after it
advance(toks, pos) == IF isAtEnd(toks, pos) THEN pos ELSE pos + 1

\* Parser::match: whether it matched, and the position after it
matches(toks, pos, type) == peek(toks, pos).type = type
afterMatch(toks, pos, type) ==
    IF matches(toks, pos, type) THEN advance(toks, pos) ELSE pos

\* What a parse function returns (a node, nullptr as Null) and where it
\* leaves Parser::pos
Parsed(node, pos) == [node |-> node, pos |-> pos]

\* expr = std::make_shared<BinaryExpr>(op, expr, right), right just parsed
makeBinary(op, expr, right) == Parsed(BinaryExpr(op, expr.node, right.node), right.pos)

RECURSIVE parseExpression(_, _)
RECURSIVE factorLoop(_, _)
RECURSIVE termLoop(_, _)
RECURSIVE comparisonLoop(_, _)
RECURSIVE equalityLoop(_, _)

\* parsePrimary's parenthesis branch after parseExpression: expect(RParen)
\* reports a missing ')' and the expression is returned all the same
closeParen(toks, e) == Parsed(e.node, afterMatch(toks, e.pos, "RParen"))

\* An exception thrown by std::stoi leaves the parser at once: pos is put
\* past the end of the tokens, where no match succeeds and every loop ends
parsePrimary(toks, pos) ==
    IF matches(toks, pos, "Number")
    THEN IF outOfRange(toks[pos + 1].text)
         THEN Parsed(NullExpr, Len(toks) + 1)
         ELSE Parsed(NumberExpr(stoi(toks[pos + 1].text)), pos + 1)
    ELSE IF matches(toks, pos, "Identifier")
    THEN Parsed(VariableExpr(toks[pos + 1].text), pos + 1)
    ELSE IF matches(toks, pos, "LParen")
    THEN closeParen(toks, parseExpression(toks, pos + 1))
    ELSE Parsed(NullExpr, advance(toks, pos))

\* parseFactor: a primary, then the loop over * and /
factorLoop(toks, expr) ==
    IF matches(toks, expr.pos, "Star")
    THEN factorLoop(toks, makeBinary("Mul", expr, parsePrimary(toks, expr.pos + 1)))
    ELSE IF matches(toks, expr.pos, "Slash")
    THEN factorLoop(toks, makeBinary("Div", expr, parsePrimary(toks, expr.pos + 1)))
    ELSE expr

parseFactor(toks, pos) == factorLoop(toks, parsePrimary(toks, pos))

\* parseTerm: a factor, then the loop over + and -
termLoop(toks, expr) ==
    IF matches(toks, expr.pos, "Plus")
    THEN termLoop(toks, makeBinary("Add", expr, parseFactor(toks, expr.pos + 1)))
    ELSE IF matches(toks, expr.pos, "Minus")
    THEN termLoop(toks, makeBinary("Sub", expr, parseFactor(toks, expr.pos + 1)))
    ELSE expr

\* A parseTerm whose operands are primaries, so that * and / get no level of
\* their own
parseTermOfPrimaries(toks, pos) == termLoop(toks, parsePrimary(toks, pos))

parseTerm(toks, pos) == termLoop(toks, parseFactor(toks, pos))

\* parseComparison: a term, then the loop over > and <
comparisonLoop(toks, expr) ==
    IF matches(toks, expr.pos, "Greater")
    THEN comparisonLoop(toks, makeBinary("Greater", expr, parseTerm(toks, expr.pos + 1)))
    ELSE IF matches(toks, expr.pos, "Less")
    THEN comparisonLoop(toks, makeBinary("Less", expr, parseTerm(toks, expr.pos + 1)))
    ELSE expr

parseComparison(toks, pos) == comparisonLoop(toks, parseTerm(toks, pos))

\* parseEquality: a comparison, then the loop over ==
equalityLoop(toks, expr) ==
    IF matches(toks, expr.pos, "Equal")
    THEN equalityLoop(toks, makeBinary("Equal", expr, parseComparison(toks, expr.pos + 1)))
    ELSE expr

parseEquality(toks, pos) == equalityLoop(toks, parseComparison(toks, pos))

parseExpression(toks, pos) == parseEquality(toks, pos)

RECURSIVE parseStatement(_, _)
RECURSIVE blockLoop(_, _)

\* stmts.push_back(stmt) when stmt is not nullptr; block = [node = stmts, pos]
pushStatement(block, s) ==
    Parsed(IF s.node = NullStmt THEN block.node ELSE Append(block.node, s.node), s.pos)

\* parseBlock's loop: while (!isAtEnd() && !match(RBrace))
blockLoop(toks, block) ==
    IF isAtEnd(toks, block.pos) THEN block
    ELSE IF matches(toks, block.pos, "RBrace") THEN Parsed(block.node, block.pos + 1)
    ELSE blockLoop(toks, pushStatement(block, parseStatement(toks, block.pos)))

parseBlock(toks, pos) == blockLoop(toks, Parsed(<<>>, pos))

\* parseLet after parseExpression: expect(Semicolon), make the LetStatement
finishLet(toks, name, value) ==
    IF ~matches(toks, value.pos, "Semicolon") THEN Parsed(NullStmt, value.pos)
    ELSE Parsed(LetStatement(name, value.node), value.pos + 1)

\* parseLet, entered after letbro was matched
parseLet(toks, pos) ==
    IF ~matches(toks, pos, "Identifier") THEN Parsed(NullStmt, pos)
    ELSE IF ~matches(toks, pos + 1, "Assign") THEN Parsed(NullStmt, pos + 1)
    ELSE finishLet(toks, toks[pos + 1].text, parseExpression(toks, pos + 2))

\* parsePrint after parseExpression: expect(RParen), expect(Semicolon)
finishPrint(toks, expr) ==
    IF ~matches(toks, expr.pos, "RParen") THEN Parsed(NullStmt, expr.pos)
    ELSE IF ~matches(toks, expr.pos + 1, "Semicolon") THEN Parsed(NullStmt, expr.pos + 1)
    ELSE Parsed(PrintStatement(expr.node), expr.pos + 2)

\* parsePrint, entered after printbro was matched
parsePrint(toks, pos) ==
    IF ~matches(toks, pos, "LParen") THEN Parsed(NullStmt, pos)
    ELSE finishPrint(toks, parseExpression(toks, pos + 1))

\* parseIf after the else block: make the IfStatement
finishIf(condition, thenBlock, elseBlock) ==
    Parsed(IfStatement(condition.node, thenBlock.node, elseBlock.node), elseBlock.pos)

\* parseIf after the then block: the optional elsebro { block }
parseElse(toks, condition, thenBlock) ==
    IF matches(toks, thenBlock.pos, "ElseBro")
    THEN IF ~matches(toks, thenBlock.pos + 1, "LBrace")
         THEN Parsed(NullStmt, thenBlock.pos + 1)
         ELSE finishIf(condition, thenBlock, parseBlock(toks, thenBlock.pos + 2))
    ELSE Parsed(IfStatement(condition.node, thenBlock.node, <<>>), thenBlock.pos)

\* parseIf after the condition: expect(RParen), expect(LBrace), the then block
parseThen(toks, condition) ==
    IF ~matches(toks, condition.pos, "RParen") THEN Parsed(NullStmt, condition.pos)
    ELSE IF ~matches(toks, condition.pos + 1, "LBrace")
    THEN Parsed(NullStmt, condition.pos + 1)
    ELSE parseElse(toks, condition, parseBlock(toks, condition.pos + 2))

\* parseIf, entered after ifbro was matched
parseIf(toks, pos) ==
    IF ~matches(toks, pos, "LParen") THEN Parsed(NullStmt, pos)
    ELSE parseThen(toks, parseExpression(toks, pos + 1))

\* parseWhile after the body: make the WhileStatement
finishWhile(condition, body) == Parsed(WhileStatement(condition.node, body.node), body.pos)

\* parseWhile after the condition: expect(RParen), expect(LBrace), the body
parseBody(toks, condition) ==
    IF ~matches(toks, condition.pos, "RParen") THEN Parsed(NullStmt, condition.pos)
    ELSE IF ~matches(toks, condition.pos + 1, "LBrace")
    THEN Parsed(NullStmt, condition.pos + 1)
    ELSE finishWhile(condition, parseBlock(toks, condition.pos + 2))

\* parseWhile, entered after whilebro was matched
parseWhile(toks, pos) ==
    IF ~matches(toks, pos, "LParen") THEN Parsed(NullStmt, pos)
    ELSE parseBody(toks, parseExpression(toks, pos + 1))

\* A parseStatement that reports an unexpected token and leaves it in place
parseStatementStuck(toks, pos) ==
    IF matches(toks, pos, "LetBro") THEN parseLet(toks, pos + 1)
    ELSE IF matches(toks, pos, "PrintBro") THEN parsePrint(toks, pos + 1)
    ELSE IF matches(toks, pos, "IfBro") THEN parseIf(toks, pos + 1)
    ELSE IF matches(toks, pos, "WhileBro") THEN parseWhile(toks, pos + 1)
    ELSE Parsed(NullStmt, pos)

parseStatement(toks, pos) ==
    IF matches(toks, pos, "LetBro") THEN parseLet(toks, pos + 1)
    ELSE IF matches(toks, pos, "PrintBro") THEN parsePrint(toks, pos + 1)
    ELSE IF matches(toks, pos, "IfBro") THEN parseIf(toks, pos + 1)
    ELSE IF matches(toks, pos, "WhileBro") THEN parseWhile(toks, pos + 1)
    ELSE Parsed(NullStmt, advance(toks, pos))

\* parseProgram's loop: while (!isAtEnd())
RECURSIVE programLoop(_, _)
programLoop(toks, prog) ==
    IF isAtEnd(toks, prog.pos) THEN prog
    ELSE programLoop(toks, pushStatement(prog, parseStatement(toks, prog.pos)))

parseProgram(toks) == Program(programLoop(toks, Parsed(<<>>, 0)).node)

\* Whether parseProgram ends by an exception instead of returning
parseThrows(toks) == programLoop(toks, Parsed(<<>>, 0)).pos > Len(toks)

(***************************************************************************)
(* VM (RohitVM.hpp, RohitVM.cpp)                                           *)
(***************************************************************************)
\* Registers as constructed: ax = bx = cx = dx = ip = flags = 0, sp = 0xFFFF
InitialRegisters ==
    [ax |-> 0, bx |-> 0, cx |-> 0, dx |-> 0, sp |-> 65535, ip |-> 0, flags |-> 0]

\* enum Flag
FlagEqual   == 8
FlagGreater == 4
FlagHigher  == 2
FlagLower   == 1

\* Memory is a vector of SIZE zero bytes; the model keeps the non-zero ones.
MemRead(m, addr) == IF addr \in DOMAIN m THEN m[addr] ELSE 0
MemWrite(m, addr, v) ==
    IF addr \in DOMAIN m
    THEN IF v = 0 THEN [x \in DOMAIN m \ {addr} |-> m[x]] ELSE [m EXCEPT ![addr] = v]
    ELSE IF v = 0 THEN m ELSE (addr :> v) @@ m

LowByte(v)  == v % Byte
\* A high byte taken without the shift
HighByteUnshifted(v) == v % Byte
HighByte(v) == (v \div Byte) % Byte

\* The bytes loadProgram writes for one instruction: the opcode, then a1 and
\* a2 as little-endian words when the opcode's size asks for them
encodeInstruction(instr) ==
    LET size == getInstructionSize(instr.op)
    IN  <<instr.op % Byte>>
        \o (IF size >= 2 THEN <<LowByte(instr.a1), HighByte(instr.a1)>> ELSE <<>>)
        \o (IF size = 5 THEN <<LowByte(instr.a2), HighByte(instr.a2)>> ELSE <<>>)

\* The bytes loadProgram writes for the instructions from i (1-based) on
RECURSIVE encodeFrom(_, _)
encodeFrom(prog, i) ==
    IF i > Len(prog) THEN <<>>
    ELSE encodeInstruction(prog[i]) \o encodeFrom(prog, i + 1)

\* VM::loadProgram: breakLine = 0, then mem[breakLine++] = byte for every byte
\* of every instruction (an image shorter than the memory, so breakLine does
\* not wrap); the bytes beyond the image keep what they held.
loadProgram(m, prog) ==
    LET image == encodeFrom(prog, 1)
        n     == Len(image)
        keep  == {a \in DOMAIN m : a >= n}
        set   == {a \in 0..(n - 1) : image[a + 1] # 0}
    IN  [memory |-> [a \in keep \cup set |-> IF a < n THEN image[a + 1] ELSE m[a]],
         breakLine |-> U16(n)]

\* A fetch whose operand is taken relative to the instruction's address
fetchRelative(c, m) ==
    LET op   == MemRead(m, c.ip)
        size == getInstructionSize(op)
        a1   == IF size >= 2
                THEN U16(c.ip + MemRead(m, U16(c.ip + 1)) + Byte * MemRead(m, U16(c.ip + 2)))
                ELSE 0
    IN  [instr |-> [op |-> op, a1 |-> a1, a2 |-> 0], ip |-> U16(c.ip + size)]

\* VM::fetchNextInstruction: the decoded instruction and the advanced ip
fetchNextInstruction(c, m) ==
    LET op   == MemRead(m, c.ip)
        size == getInstructionSize(op)
        a1   == IF size >= 2
                THEN MemRead(m, U16(c.ip + 1)) + Byte * MemRead(m, U16(c.ip + 2))
                ELSE 0
        a2   == IF size = 5
                THEN MemRead(m, U16(c.ip + 3)) + Byte * MemRead(m, U16(c.ip + 4))
                ELSE 0
    IN  [instr |-> [op |-> op, a1 |-> a1, a2 |-> a2], ip |-> U16(c.ip + size)]

\* A setFlag that assigns the whole register: flags = mask, or flags = 0
setFlagWhole(flags, mask, v) == IF v THEN mask ELSE 0

\* CPU::setFlag
setFlag(flags, mask, v) ==
    LET isSet == (flags \div mask) % 2 = 1
    IN  IF v THEN (IF isSet THEN flags ELSE flags + mask)
             ELSE (IF isSet THEN flags - mask ELSE flags)

\* An outcome that drops the error: a handleError that returns to its caller
OutcomeNotFatal(c, m, printed, error) ==
    [cpu |-> c, memory |-> m, printed |-> printed, error |-> ""]

\* The outcome of executing one instruction: the registers and memory after
\* it, what it printed, and the message of the fatal error that ended it.
\* handleError is fatal (std::exit): nothing after it is executed.
Outcome(c, m, printed, error) ==
    [cpu |-> c, memory |-> m, printed |-> printed, error |-> error]

\* A push without the test of SP: SP wraps around
pushUnchecked(c, m, val) ==
    LET sp == U16(c.sp - 2)
    IN  Outcome([c EXCEPT !.sp = sp],
                MemWrite(MemWrite(m, sp, LowByte(val)), U16(sp + 1), HighByte(val)),
                <<>>, "")

\* A push that stores the high byte first
pushBigEndian(c, m, val) ==
    IF c.sp < 2 THEN Outcome(c, m, <<>>, "Stack Overflow")
    ELSE LET sp == c.sp - 2
         IN  Outcome([c EXCEPT !.sp = sp],
                     MemWrite(MemWrite(m, sp, HighByte(val)), U16(sp + 1), LowByte(val)),
                     <<>>, "")

\* VM::push
push(c, m, val) ==
    IF c.sp < 2 THEN Outcome(c, m, <<>>, "Stack Overflow")
    ELSE LET sp == c.sp - 2
         IN  Outcome([c EXCEPT !.sp = sp],
                     MemWrite(MemWrite(m, sp, LowByte(val)), U16(sp + 1), HighByte(val)),
                     <<>>, "")

\* A pop that stores into AX whatever register the operand selects
popIntoAX(c, m, reg) ==
    IF c.sp > MemorySize - 2 THEN Outcome(c, m, <<>>, "Stack Underflow")
    ELSE LET val == MemRead(m, c.sp) + Byte * MemRead(m, U16(c.sp + 1))
         IN  Outcome([c EXCEPT !.ax = val, !.sp = U16(c.sp + 2)], m, <<>>, "")

\* VM::pop into register reg
pop(c, m, reg) ==
    IF c.sp > MemorySize - 2 THEN Outcome(c, m, <<>>, "Stack Underflow")
    ELSE LET val == MemRead(m, c.sp) + Byte * MemRead(m, U16(c.sp + 1))
         IN  Outcome([c EXCEPT ![reg] = val, !.sp = U16(c.sp + 2)], m, <<>>, "")

\* A DIV without the test of BX: the quotient by 0 is any word
divideUnchecked(c, m) ==
    Outcome([c EXCEPT !.ax = IF c.bx = 0 THEN Word - 1 ELSE c.ax \div c.bx], m, <<>>, "")

\* case Opcode::DIV
divide(c, m) ==
    IF c.bx = 0 THEN Outcome(c, m, <<>>, "Division by zero")
    ELSE Outcome([c EXCEPT !.ax = c.ax \div c.bx], m, <<>>, "")

\* ax *= bx stored back into the uint16_t ax: the product reduced to 16 bits.
\* It is computed by the two bytes of b, the product itself passing 2^31.
multiply(a, b) == U16(a * (b % Byte) + U16(a * (b \div Byte)) * Byte)

\* ax and bx are promoted to int before they are multiplied: a product above
\* INT_MAX overflows a signed int, which the language leaves undefined
multiplyOverflows(a, b) == b # 0 /\ a > IntMax \div b

\* VM::executeInstruction, on the registers c with ip already advanced
executeInstruction(instr, c, m) ==
    LET op == instr.op
        a1 == instr.a1
        Regs(c1) == Outcome(c1, m, <<>>, "")
    IN  CASE op = NOP -> Regs(c)
          [] op = HLT -> Regs(c)
          [] op = MOV    -> Regs([c EXCEPT !.ax = a1])
          [] op = MOV_BX -> Regs([c EXCEPT !.bx = a1])
          [] op = MOV_CX -> Regs([c EXCEPT !.cx = a1])
          [] op = MOV_DX -> Regs([c EXCEPT !.dx = a1])
          [] op = MOV_SP -> Regs([c EXCEPT !.sp = a1])
          [] op = ADD -> Regs([c EXCEPT !.ax = U16(c.ax + c.bx)])
          [] op = SUB -> Regs([c EXCEPT !.ax = U16(c.ax - c.bx)])
          [] op = MUL -> Regs([c EXCEPT !.ax = multiply(c.ax, c.bx)])
          [] op = DIV -> divide(c, m)
          [] op = STE -> Regs([c EXCEPT !.flags = setFlag(@, FlagEqual, TRUE)])
          [] op = CLE -> Regs([c EXCEPT !.flags = setFlag(@, FlagEqual, FALSE)])
          [] op = STG -> Regs([c EXCEPT !.flags = setFlag(@, FlagGreater, TRUE)])
          [] op = CLG -> Regs([c EXCEPT !.flags = setFlag(@, FlagGreater, FALSE)])
          [] op = STH -> Regs([c EXCEPT !.flags = setFlag(@, FlagHigher, TRUE)])
          [] op = CLH -> Regs([c EXCEPT !.flags = setFlag(@, FlagHigher, FALSE)])
          [] op = STL -> Regs([c EXCEPT !.flags = setFlag(@, FlagLower, TRUE)])
          [] op = CLL -> Regs([c EXCEPT !.flags = setFlag(@, FlagLower, FALSE)])
          [] op = PUSH ->
                CASE a1 = 0 -> push(c, m, c.ax)
                  [] a1 = 1 -> push(c, m, c.bx)
                  [] a1 = 2 -> push(c, m, c.cx)
                  [] a1 = 3 -> push(c, m, c.dx)
                  [] OTHER  -> Outcome(c, m, <<>>, "Invalid PUSH register")
          [] op = POP ->
                CASE a1 = 0 -> pop(c, m, "ax")
                  [] a1 = 1 -> pop(c, m, "bx")
                  [] a1 = 2 -> pop(c, m, "cx")
                  [] a1 = 3 -> pop(c, m, "dx")
                  [] OTHER  -> Outcome(c, m, <<>>, "Invalid POP register")
          [] op = PRN -> Outcome(c, m, <<c.ax>>, "")
          [] op = JMP -> Regs([c EXCEPT !.ip = a1])
          [] op = JZ  -> Regs(IF c.ax = 0 THEN [c EXCEPT !.ip = a1] ELSE c)
          [] op = JNZ -> Regs(IF c.ax # 0 THEN [c EXCEPT !.ip = a1] ELSE c)
          [] OTHER -> Outcome(c, m, <<>>, "Illegal Instruction")

\* The characters operator<< and printf("%.02x") write for a digit
DecimalDigits == <<"0", "1", "2", "3", "4", "5", "6", "7", "8", "9">>
HexDigits == DecimalDigits \o <<"a", "b", "c", "d", "e", "f">>

\* std::cout << n for a uint16_t n: its unsigned decimal digits
RECURSIVE decimal(_)
decimal(n) ==
    IF n < 10 THEN <<DecimalDigits[n + 1]>>
    ELSE decimal(n \div 10) \o <<DecimalDigits[(n % 10) + 1]>>

\* RohitUtils::printhex(memory.raw() + start, size, ' '), without its newline
RECURSIVE printhex(_, _, _)
printhex(m, start, size) ==
    IF size = 0 THEN <<>>
    ELSE LET b == MemRead(m, start)
         IN  <<HexDigits[(b \div 16) + 1], HexDigits[(b % 16) + 1], " ">>
                 \o printhex(m, start + 1, size - 1)

\* A PRN that writes its first line only
writtenOnce(instr, c, m) ==
    IF instr.op = PRN THEN << <<"Output: ">> \o decimal(c.ax) >> ELSE <<>>

\* An HLT that dumps the 32 bytes up to the end of memory
writtenLastBytes(instr, c, m) ==
    CASE instr.op = HLT ->
            << <<"System Halted">>,
               <<"AX: ">> \o decimal(c.ax) \o <<", BX: ">> \o decimal(c.bx)
                   \o <<", CX: ">> \o decimal(c.cx) \o <<", DX: ">> \o decimal(c.dx)
                   \o <<", SP: ">> \o decimal(c.sp),
               printhex(m, MemorySize - 32, 32) >>
      [] instr.op = PRN ->
            << <<"Output: ">> \o decimal(c.ax),
               <<"HUMAN OUTPUT: ">> \o decimal(c.ax) >>
      [] OTHER -> <<>>

\* The lines executeInstruction writes to std::cout, each line the sequence
\* of its pieces of text
written(instr, c, m) ==
    CASE instr.op = HLT ->
            << <<"System Halted">>,
               <<"AX: ">> \o decimal(c.ax) \o <<", BX: ">> \o decimal(c.bx)
                   \o <<", CX: ">> \o decimal(c.cx) \o <<", DX: ">> \o decimal(c.dx)
                   \o <<", SP: ">> \o decimal(c.sp),
               printhex(m, MemorySize - 1 - 32, 32) >>
      [] instr.op = PRN ->
            << <<"Output: ">> \o decimal(c.ax),
               <<"HUMAN OUTPUT: ">> \o decimal(c.ax) >>
      [] OTHER -> <<>>

\* The first line of VM::execute
Banner == <<"Starting VM Execution...">>

\* The last line of VM::execute
Farewell == <<"Program Halted.">>

\* A loop that HLT does not leave
loopExitNoBreak(op, error) == IF error # "" THEN "error" ELSE "loaded"

\* Where VM::execute stands after a turn that executed op and ended with
\* error: handleError has exited, HLT has left the loop, or the loop goes on
loopExit(op, error) ==
    IF error # "" THEN "error"
    ELSE IF op = HLT THEN "halted"
    ELSE "loaded"

(***************************************************************************)
(* Inputs: the bounded sets the programs are drawn from                    *)
(***************************************************************************)
MaxOutput == 3      \* printed values kept in stdout
MaxLets   == 4      \* longest program of the Let family
MaxNames  == 4      \* names the Let family draws from

\* std::string values, as sequences of characters
NameA == <<"a">>
NameB == <<"b">>
NameN == <<"n">>
NameSeq == <<<<"a">>, <<"b">>, <<"c">>, <<"d">>, <<"e">>, <<"f">>>>
LetNames == {NameSeq[i] : i \in 1..MaxNames}

Num(v) == NumberExpr(v)
Var(n) == VariableExpr(n)

\* S1: printbro(42);
ProgramS1 == Program(<<PrintStatement(Num(42))>>)

\* S2: letbro a = 3; letbro b = 4; printbro(a + b * 2);
ProgramS2 ==
    Program(<<LetStatement(NameA, Num(3)), LetStatement(NameB, Num(4)),
              PrintStatement(BinaryExpr("Add", Var(NameA),
                                        BinaryExpr("Mul", Var(NameB), Num(2))))>>)

\* S3: letbro a = 5; ifbro (a == 5) { printbro(1); } elsebro { printbro(2); }
ProgramS3 ==
    Program(<<LetStatement(NameA, Num(5)),
              IfStatement(BinaryExpr("Equal", Var(NameA), Num(5)),
                          <<PrintStatement(Num(1))>>, <<PrintStatement(Num(2))>>)>>)

\* S4: letbro n = 3; whilebro (n) { printbro(n); letbro n = n + 1; }
ProgramS4 ==
    Program(<<LetStatement(NameN, Num(3)),
              WhileStatement(Var(NameN),
                  <<PrintStatement(Var(NameN)),
                    LetStatement(NameN, BinaryExpr("Add", Var(NameN), Num(1)))>>)>>)

\* S6: letbro a = 10; letbro b = 0; printbro(a / b);
ProgramS6 ==
    Program(<<LetStatement(NameA, Num(10)), LetStatement(NameB, Num(0)),
              PrintStatement(BinaryExpr("Div", Var(NameA), Var(NameB)))>>)

\* Expressions over a, b and 2, nested to depth 2
ExprAtoms == {Var(NameA), Var(NameB), Num(2)}
ExprInner ==
    ExprAtoms \cup {BinaryExpr(o, l, r) : o \in {"Add", "Mul"}, l \in ExprAtoms, r \in ExprAtoms}
ExprSet ==
    ExprInner \cup {BinaryExpr(o, l, r) : o \in {"Add", "Sub", "Mul", "Div"},
                                          l \in ExprInner, r \in ExprInner}

\* letbro a = 3; letbro b = 4; printbro(e);
ExprProgram(e) ==
    Program(<<LetStatement(NameA, Num(3)), LetStatement(NameB, Num(4)), PrintStatement(e)>>)
ExprPrograms == {ExprProgram(e) : e \in ExprSet}

\* letbro a = v; ifbro (cond) { T } elsebro { E }  tail
CondSet == {Num(0), Num(1), Var(NameA), BinaryExpr("Equal", Var(NameA), Num(5)),
            BinaryExpr("Greater", Var(NameA), Num(5)), BinaryExpr("Less", Var(NameA), Num(5))}
ThenBlocks == {<<>>, <<PrintStatement(Num(1))>>}
ElseBlocks == {<<>>, <<PrintStatement(Num(2))>>}
Tails == {<<>>, <<PrintStatement(Num(3))>>}
IfProgram(v, c, t, e, tail) ==
    Program(<<LetStatement(NameA, Num(v)), IfStatement(c, t, e)>> \o tail)
IfPrograms ==
    {IfProgram(v, c, t, e, tail) :
        v \in {0, 5}, c \in CondSet, t \in ThenBlocks, e \in ElseBlocks, tail \in Tails}

\* whilebro (cond) { body }  tail, with and without a leading letbro a = v;
WhileBodies == {<<>>, <<PrintStatement(Var(NameA))>>,
                <<PrintStatement(Var(NameA)),
                  LetStatement(NameA, BinaryExpr("Sub", Var(NameA), Num(1)))>>}
WhilePrograms ==
    {Program(<<WhileStatement(c, b)>> \o tail) :
        c \in {Num(0), Num(1)}, b \in WhileBodies, tail \in Tails}
    \cup {Program(<<LetStatement(NameA, Num(v)), WhileStatement(Var(NameA), b)>> \o tail) :
        v \in {0, 2}, b \in WhileBodies, tail \in Tails}

\* Sequences of at most n statements letbro <name> = 1; over the first MaxNames names
RECURSIVE LetSeqs(_)
LetSeqs(n) ==
    IF n = 0 THEN {<<>>}
    ELSE LetSeqs(n - 1) \cup
         {Append(s, LetStatement(nm, Num(1))) :
             s \in {t \in LetSeqs(n - 1) : Len(t) = n - 1},
             nm \in LetNames}

\* What may run before the Lets: nothing, a print, a division by zero, an
\* endless loop
Prefixes == {<<>>, <<PrintStatement(Num(7))>>,
             <<PrintStatement(BinaryExpr("Div", Num(1), Num(0)))>>,
             <<WhileStatement(Num(1), <<>>)>>}
LetPrograms ==
    {Program(pre \o s) : pre \in Prefixes, s \in LetSeqs(MaxLets)}

\* The programs compiled and run under Spec
Programs ==
    {ProgramS1, ProgramS2, ProgramS3, ProgramS6}
    \cup ExprPrograms \cup IfPrograms \cup WhilePrograms \cup LetPrograms

\* Programs for the code generator alone: If and While nested to depth 2,
\* with empty blocks, reads of unbound names and rebinding
CGSimple == {LetStatement(NameA, Num(1)), LetStatement(NameB, Var(NameA)),
             PrintStatement(Var(NameB))}
CGBlock0 == {<<>>} \cup {<<st>> : st \in CGSimple}
CGControl1 ==
    {IfStatement(Var(NameA), t, e) : t \in CGBlock0, e \in CGBlock0}
    \cup {WhileStatement(Var(NameA), b) : b \in CGBlock0}
CGStmts1 == CGSimple \cup CGControl1
CGBlock1 == {<<>>} \cup {<<st>> : st \in CGControl1}
CGStmts2 ==
    {IfStatement(Var(NameA), t, e) : t \in CGBlock1, e \in CGBlock1}
    \cup {WhileStatement(Var(NameA), b) : b \in CGBlock1}

MaxStmts == 2       \* longest program of depth-1 statements

RECURSIVE StmtSeqs(_)
StmtSeqs(n) ==
    IF n = 0 THEN {<<>>}
    ELSE StmtSeqs(n - 1) \cup
         {Append(s, st) : s \in {t \in StmtSeqs(n - 1) : Len(t) = n - 1}, st \in CGStmts1}

\* Programs that read names before any Let binds them: in the value of the
\* name's own first Let, in both operands of a sum, in a condition and inside
\* the blocks of an If and a While, each followed by more statements
ProgramsUnbound ==
    {Program(<<LetStatement(NameA, Var(NameA)), PrintStatement(Var(NameB))>>),
     Program(<<PrintStatement(BinaryExpr("Add", Var(NameA), Var(NameB))),
               LetStatement(NameB, BinaryExpr("Add", Var(NameB), Num(1))),
               PrintStatement(BinaryExpr("Sub", Var(NameB), Var(NameA)))>>),
     Program(<<IfStatement(Var(NameA), <<LetStatement(NameA, Var(NameB))>>,
                           <<PrintStatement(Var(NameA))>>),
               PrintStatement(Var(NameA))>>),
     Program(<<WhileStatement(BinaryExpr("Less", Var(NameN), Num(2)),
                              <<LetStatement(NameN, BinaryExpr("Add", Var(NameN), Num(1)))>>),
               PrintStatement(Var(NameN)), PrintStatement(Var(NameA))>>)}

\* A While in an If in a While, followed by an If with both blocks
ProgramNested ==
    Program(<<LetStatement(NameA, Num(1)),
              WhileStatement(Var(NameA),
                  <<IfStatement(Var(NameA),
                        <<WhileStatement(Num(0), <<PrintStatement(Var(NameA))>>)>>,
                        <<LetStatement(NameA, Num(0))>>)>>),
              IfStatement(Num(1), <<PrintStatement(Num(1))>>, <<PrintStatement(Num(2))>>)>>)

ProgramsCG ==
    {Program(s) : s \in StmtSeqs(MaxStmts)}
    \cup ProgramsUnbound
    \cup {ProgramNested}
    \cup {Program(<<st>>) : st \in CGStmts2}
    \cup {Program(s) : s \in LetSeqs(MaxLets)}
    \cup {ProgramS1, ProgramS2, ProgramS3, ProgramS4, ProgramS6}

\* Programs a Codegen object that has already served a call is given next
ProgramReused ==
    Program(<<LetStatement(NameB, Num(1)), LetStatement(NameA, Var(NameB)),
              WhileStatement(Var(NameA), <<IfStatement(Var(NameB), <<>>, <<>>)>>)>>)
ProgramsAgain == {Program(<<>>), ProgramS2, ProgramS3, ProgramS4, ProgramReused}

\* Token streams, as the lexer hands them to the parser
KwLet   == Token("LetBro", <<"l", "e", "t", "b", "r", "o">>)
KwPrint == Token("PrintBro", <<"p", "r", "i", "n", "t", "b", "r", "o">>)
KwIf    == Token("IfBro", <<"i", "f", "b", "r", "o">>)
KwElse  == Token("ElseBro", <<"e", "l", "s", "e", "b", "r", "o">>)
KwWhile == Token("WhileBro", <<"w", "h", "i", "l", "e", "b", "r", "o">>)
Ident(ch) == Token("Identifier", <<ch>>)
Numeral(text) == Token("Number", text)
TPlus   == Token("Plus", <<"+">>)
TMinus  == Token("Minus", <<"-">>)
TStar   == Token("Star", <<"*">>)
TSlash  == Token("Slash", <<"/">>)
TAssign == Token("Assign", <<"=">>)
TEqual  == Token("Equal", <<"=", "=">>)
TGreater == Token("Greater", <<">">>)
TLess   == Token("Less", <<"<">>)
TSemi   == Token("Semicolon", <<";">>)
TLParen == Token("LParen", <<"(">>)
TRParen == Token("RParen", <<")">>)
TLBrace == Token("LBrace", <<"{">>)
TRBrace == Token("RBrace", <<"}">>)

\* letbro <name> = <digits>;
LetTokens(ch, digits) == <<KwLet, Ident(ch), TAssign, Numeral(digits), TSemi>>

\* S2: letbro a = 3; letbro b = 4; printbro(a + b * 2);
TokensS2 ==
    LetTokens("a", <<"3">>) \o LetTokens("b", <<"4">>)
    \o <<KwPrint, TLParen, Ident("a"), TPlus, Ident("b"), TStar, Numeral(<<"2">>),
         TRParen, TSemi>>

\* S3: letbro a = 5; ifbro (a == 5) { printbro(1); } elsebro { printbro(2); }
TokensS3 ==
    LetTokens("a", <<"5">>)
    \o <<KwIf, TLParen, Ident("a"), TEqual, Numeral(<<"5">>), TRParen, TLBrace,
         KwPrint, TLParen, Numeral(<<"1">>), TRParen, TSemi, TRBrace,
         KwElse, TLBrace, KwPrint, TLParen, Numeral(<<"2">>), TRParen, TSemi, TRBrace>>

\* The binary operator tokens, by precedence level
OperatorTokens == {TPlus, TMinus, TStar, TSlash, TLess, TGreater, TEqual}

\* letbro x = 7; letbro y = 3; letbro z = 2; printbro(x op1 y op2 z);
TwoOperatorTokens(op1, op2) ==
    LetTokens("x", <<"7">>) \o LetTokens("y", <<"3">>) \o LetTokens("z", <<"2">>)
    \o <<KwPrint, TLParen, Ident("x"), op1, Ident("y"), op2, Ident("z"), TRParen, TSemi>>

\* printbro((x op1 y) op2 12);  and  printbro(x op1 (y op2 12));
ParenTokensLeft(op1, op2) ==
    <<KwPrint, TLParen, TLParen, Ident("x"), op1, Ident("y"), TRParen, op2,
      Numeral(<<"1", "2">>), TRParen, TSemi>>
ParenTokensRight(op1, op2) ==
    <<KwPrint, TLParen, Ident("x"), op1, TLParen, Ident("y"), op2,
      Numeral(<<"1", "2">>), TRParen, TRParen, TSemi>>

TokenInputs ==
    {TokensS2, TokensS3}
    \cup {TwoOperatorTokens(op1, op2) : op1 \in OperatorTokens, op2 \in OperatorTokens}
    \cup {ParenTokensLeft(op1, op2) : op1 \in {TPlus, TStar}, op2 \in {TPlus, TStar}}
    \cup {ParenTokensRight(op1, op2) : op1 \in {TPlus, TStar}, op2 \in {TPlus, TStar}}

(***************************************************************************)
(* The tool chain as a state machine                                       *)
(***************************************************************************)
\* No compiler process: nothing was asked of broc
NotInvoked ==
    [args |-> <<>>, inputOpens |-> TRUE, outputOpens |-> TRUE, outputWrites |-> TRUE,
     usage |-> FALSE, status |-> -1]

\* A Codegen and a VM as constructed, before anything is compiled
Constructed ==
    /\ cg = FreshCodegen
    /\ k = 0
    /\ bytecode = <<>>
    /\ artifact = <<>>
    /\ cpu = InitialRegisters
    /\ memory = EmptyMap
    /\ breakLine = 0
    /\ stdout = <<>>
    /\ stderr = ""
    /\ console = <<>>
    /\ cli = NotInvoked
    /\ lexer = Lexer(<<>>)

Init ==
    /\ Constructed
    /\ tokens = <<>>
    /\ program \in Programs
    /\ pc = "start"

\* Codegen::generate, its six clearing statements
Generate ==
    /\ pc = "start"
    /\ cg' = ClearCodegen(cg)
    /\ k' = 0
    /\ pc' = "gen"
    /\ UNCHANGED <<artifact, tokens, program, bytecode, cpu, memory, breakLine, stdout, stderr, console, cli, lexer>>

\* One turn of generate's loop: genStatement(stmt), nested statements included
GenStatement ==
    /\ pc = "gen"
    /\ k < Len(program.statements)
    /\ cg' = genStatement(cg, program.statements[k + 1])
    /\ k' = k + 1
    /\ UNCHANGED <<artifact, tokens, program, bytecode, cpu, memory, breakLine, stdout, stderr, console, cli, lexer, pc>>

\* A generate that forgets the final HLT
emitHaltOmitted(c) == c

\* emit({Opcode::HLT})
emitHalt(c) == emit(c, Instruction(HLT, 0))

\* The end of generate: emit HLT, patchJumps, return instructions
FinishGenerate ==
    /\ pc = "gen"
    /\ k = Len(program.statements)
    /\ cg' = patchJumps(emitHalt(cg))
    /\ bytecode' = cg'.instructions
    /\ pc' = "generated"
    /\ UNCHANGED <<artifact, tokens, program, k, cpu, memory, breakLine, stdout, stderr, console, cli, lexer>>

\* VM::loadProgram(bytecode)
LoadProgram ==
    /\ pc = "generated"
    /\ LET s == loadProgram(memory, bytecode)
       IN  /\ memory' = s.memory
           /\ breakLine' = s.breakLine
    /\ pc' = "loaded"
    /\ UNCHANGED <<artifact, tokens, program, cg, k, bytecode, cpu, stdout, stderr, console, cli, lexer>>

\* The words an overflowed product may leave in ax besides the wrapped one
UndefinedWords == {0, Word - 1}

\* What executeInstruction may do: one outcome, except for a MUL whose product
\* overflows int, where ax is the wrapped product or any other word
outcomes(instr, c, m) ==
    LET r == executeInstruction(instr, c, m)
    IN  IF instr.op = MUL /\ multiplyOverflows(c.ax, c.bx)
        THEN {[r EXCEPT !.cpu.ax = v] : v \in {r.cpu.ax} \cup UndefinedWords}
        ELSE {r}

\* One turn of VM::execute's loop: fetchNextInstruction, executeInstruction,
\* and the test for HLT
ExecuteStep ==
    /\ pc = "loaded"
    /\ \E f \in {fetchNextInstruction(cpu, memory)} :
       \E r \in outcomes(f.instr, [cpu EXCEPT !.ip = f.ip], memory) :
           /\ cpu' = r.cpu
           /\ memory' = r.memory
           /\ stdout' = IF Len(stdout) < MaxOutput THEN stdout \o r.printed ELSE stdout
           /\ stderr' = r.error
           /\ console' = (IF console = <<>> THEN <<Banner>> ELSE console)
                            \o (IF f.instr.op = PRN /\ Len(stdout) >= MaxOutput THEN <<>>
                                ELSE written(f.instr, [cpu EXCEPT !.ip = f.ip], memory))
                            \o (IF loopExit(f.instr.op, r.error) = "halted"
                                THEN <<Farewell>> ELSE <<>>)
           /\ pc' = loopExit(f.instr.op, r.error)
    /\ UNCHANGED <<artifact, tokens, program, cg, k, bytecode, breakLine, cli, lexer>>

\* Parser::parseProgram on the token stream (broc.cpp, step 3)
Parse ==
    /\ pc = "parse"
    /\ program' = parseProgram(tokens)
    /\ pc' = "start"
    /\ UNCHANGED <<artifact, tokens, cg, k, bytecode, cpu, memory, breakLine, stdout, stderr, console, cli, lexer>>

\* Codegen::generate called again on a Codegen object that has served a call
GenerateAgain(P) ==
    /\ pc = "generated"
    /\ program' = P
    /\ cg' = ClearCodegen(cg)
    /\ k' = 0
    /\ bytecode' = <<>>
    /\ pc' = "gen"
    /\ UNCHANGED <<artifact, tokens, cpu, memory, breakLine, stdout, stderr, console, cli, lexer>>

\* Compile one program, load it and run it
Next == Generate \/ GenStatement \/ FinishGenerate \/ LoadProgram \/ ExecuteStep

Spec == Init /\ [][Next]_vars

\* The code generator alone, one Codegen object serving call after call
InitCodegen ==
    /\ Constructed
    /\ tokens = <<>>
    /\ program \in ProgramsCG
    /\ pc = "start"

NextCodegen ==
    \/ Generate
    \/ GenStatement
    \/ FinishGenerate
    \/ \E P \in ProgramsAgain : GenerateAgain(P)

SpecCodegen == InitCodegen /\ [][NextCodegen]_vars

\* The whole chain from the token stream on: parse, compile, load, run
InitFront ==
    /\ Constructed
    /\ tokens \in TokenInputs
    /\ program = Program(<<>>)
    /\ pc = "parse"

NextFront == Parse \/ Next

SpecFront == InitFront /\ [][NextFront]_vars

\* One turn of VM::execute's loop on the run s so far: s holds the registers
\* and memory, what the turns printed, the fatal error and the last opcode
turn(s) ==
    LET f == fetchNextInstruction(s.cpu, s.memory)
        r == executeInstruction(f.instr, [s.cpu EXCEPT !.ip = f.ip], s.memory)
    IN  [cpu |-> r.cpu, memory |-> r.memory, printed |-> s.printed \o r.printed,
         lines |-> s.lines \o written(f.instr, [s.cpu EXCEPT !.ip = f.ip], s.memory),
         error |-> r.error, op |-> f.instr.op]

\* VM::execute's loop, turn after turn up to and including the first
\* conditional jump, HLT or fatal error
RECURSIVE runToBranch(_)
runToBranch(s) ==
    IF s.error # "" \/ s.op \in {HLT, JZ, JNZ} THEN s
    ELSE CHOOSE res \in {runToBranch(t) : t \in {turn(s)}} : TRUE

\* The turns of VM::execute's loop up to and including the next conditional
\* jump, HLT or fatal error, taken as one step
ExecuteToBranch ==
    /\ pc = "loaded"
    /\ \E r \in {runToBranch(t) : t \in {turn([cpu |-> cpu, memory |-> memory,
                                                  printed |-> <<>>, lines |-> <<>>])}} :
          /\ cpu' = r.cpu
          /\ memory' = r.memory
          /\ stdout' = IF Len(stdout \o r.printed) > MaxOutput
                       THEN SubSeq(stdout \o r.printed, 1, MaxOutput)
                       ELSE stdout \o r.printed
          /\ stderr' = r.error
          /\ console' =
                LET room == IF Len(stdout) < MaxOutput THEN MaxOutput - Len(stdout) ELSE 0
                    kept == IF Len(r.printed) < room THEN Len(r.printed) ELSE room
                IN  (IF console = <<>> THEN <<Banner>> ELSE console)
                        \o SubSeq(r.lines, 1, 2 * kept)
                        \o SubSeq(r.lines, 2 * Len(r.printed) + 1, Len(r.lines))
                        \o (IF loopExit(r.op, r.error) = "halted"
                            THEN <<Farewell>> ELSE <<>>)
          /\ pc' = loopExit(r.op, r.error)
    /\ UNCHANGED <<artifact, tokens, program, cg, k, bytecode, breakLine, cli, lexer>>

\* S4 compiled, loaded and run, the VM observed after each conditional jump
InitS4 ==
    /\ Constructed
    /\ tokens = <<>>
    /\ program = ProgramS4
    /\ pc = "start"

NextS4 == Generate \/ GenStatement \/ FinishGenerate \/ LoadProgram \/ ExecuteToBranch

SpecS4 == InitS4 /\ [][NextS4]_vars

(***************************************************************************)
(* What the properties are stated with                                     *)
(***************************************************************************)
\* The byte address at which instruction n (0-based) of prog begins once
\* loadProgram has written prog from address 0
byteOffset(prog, n) == Len(encodeFrom(SubSeq(prog, 1, n), 1))

instructionStarts(prog) == {byteOffset(prog, n) : n \in 0..(Len(prog) - 1)}

\* The value of expression e modulo 2^16 where env gives the variables their
\* values; a comparison is worth left - right, the SUB its code ends with
RECURSIVE valueOf(_, _)
valueOf(e, env) ==
    CASE e.kind = "Number" -> U16(e.value)
      [] e.kind = "Variable" -> env[e.name]
      [] e.kind = "Binary" ->
            LET l == valueOf(e.left, env)
                r == valueOf(e.right, env)
            IN  CASE e.op = "Add" -> U16(l + r)
                  [] e.op = "Mul" -> U16(l * r)
                  [] e.op = "Div" -> IF r = 0 THEN 0 ELSE l \div r
                  [] OTHER -> U16(l - r)

\* What a block of printbro(<number>); statements prints
printedValues(stmts) == [i \in 1..Len(stmts) |-> stmts[i].expr.value]

\* The names of the Let statements in the order generate comes to them
RECURSIVE letNames(_)
letNamesOf(stmt) ==
    CASE stmt.kind = "Let" -> <<stmt.name>>
      [] stmt.kind = "If" -> letNames(stmt.thenBranch) \o letNames(stmt.elseBranch)
      [] stmt.kind = "While" -> letNames(stmt.body)
      [] OTHER -> <<>>
letNames(stmts) ==
    IF stmts = <<>> THEN <<>> ELSE letNamesOf(Head(stmts)) \o letNames(Tail(stmts))

\* names without the repetitions, each name where it first stands
RECURSIVE firstAssigned(_)
firstAssigned(names) ==
    IF names = <<>> THEN <<>>
    ELSE LET front == firstAssigned(SubSeq(names, 1, Len(names) - 1))
             last  == names[Len(names)]
         IN  IF \E i \in 1..Len(front) : front[i] = last THEN front
             ELSE Append(front, last)

boundNames(P) == {letNames(P.statements)[i] : i \in 1..Len(letNames(P.statements))}

RECURSIVE hasDivision(_)
hasDivision(e) ==
    /\ e.kind = "Binary"
    /\ (e.op = "Div" \/ hasDivision(e.left) \/ hasDivision(e.right))

\* P is a sequence of Let and Print statements that divide nowhere
straightLine(P) ==
    \A i \in 1..Len(P.statements) :
        LET st == P.statements[i]
        IN  \/ st.kind = "Let" /\ ~hasDivision(st.value)
            \/ st.kind = "Print" /\ ~hasDivision(st.expr)

\* The list generate returns for P on a Codegen object as constructed
generateFresh(P) ==
    patchJumps(emitHalt(genBlock(FreshCodegen, P.statements, 1))).instructions

\* The position in bytecode (1-based) of the JZ at the head of S4's loop
loopHead == CHOOSE i \in 1..Len(bytecode) : bytecode[i].op = JZ

(***************************************************************************)
(* Properties of Codegen::generate (SpecCodegen)                           *)
(***************************************************************************)
\* C1: the list generate returns has HLT as its last instruction and no other
\* HLT, and every instruction in it has an opcode whose width
\* getInstructionSize defines.
HaltIsLastAndOnly ==
    pc = "generated" =>
        /\ Len(bytecode) >= 1
        /\ bytecode[Len(bytecode)].op = HLT
        /\ \A i \in 1..(Len(bytecode) - 1) : bytecode[i].op # HLT
        /\ \A i \in 1..Len(bytecode) : getInstructionSize(bytecode[i].op) # 0

\* generate has returned the code of a program with a loop and a print in it
HaltAfterControlFlow ==
    /\ pc = "generated"
    /\ \E i \in 1..Len(bytecode) : bytecode[i].op = JMP
    /\ \E i \in 1..Len(bytecode) : bytecode[i].op = PRN
    /\ bytecode[Len(bytecode)].op = HLT

\* C2: after generate, the operand t of every JMP, JZ and JNZ of the list
\* satisfies 0 <= t < Len(list), also when an If or a While is the last
\* statement or has empty blocks.
JumpTargetsInRange ==
    pc = "generated" =>
        \A i \in 1..Len(bytecode) :
            bytecode[i].op \in JumpOpcodes =>
                bytecode[i].a1 >= 0 /\ bytecode[i].a1 < Len(bytecode)

\* generate has returned the code of a program that ends with an If whose
\* blocks are both empty: its JMP targets the last index, the final HLT
JumpToFinalHalt ==
    /\ pc = "generated"
    /\ Len(program.statements) >= 1
    /\ LET last == program.statements[Len(program.statements)]
       IN  last.kind = "If" /\ last.thenBranch = <<>> /\ last.elseBranch = <<>>
    /\ \E i \in 1..Len(bytecode) :
          bytecode[i].op = JMP /\ bytecode[i].a1 = Len(bytecode) - 1

(***************************************************************************)
(* Properties of the compiled code on the VM (Spec, SpecS4)                *)
(***************************************************************************)
\* C3: jump operands are byte offsets into the program image: once the list
\* generate returned is loaded, the operand of every jump equals the byte
\* address at which the instruction its label marks begins, and the VM's ip
\* always stands on the first byte of an instruction of the list.
JumpOperandsAreByteOffsets ==
    pc = "loaded" =>
        /\ \A i \in 1..Len(cg.labelPlaceholders) :
              LET index   == cg.labelPlaceholders[i][1]
                  labelId == cg.labelPlaceholders[i][2]
              IN  bytecode[index + 1].a1 = byteOffset(bytecode, cg.labelTargets[labelId])
        /\ cpu.ip \in instructionStarts(bytecode)

\* C4: the code of If(cond, T, E) runs E and not T when cond's code leaves 0
\* in AX, and T and not E otherwise, and goes on with the statement after
\* the If; the run of S3 prints 2 and not 1, and halts.
IfRunsTheSelectedBranch ==
    (program \in IfPrograms /\ pc \in {"halted", "error"}) =>
        LET v        == program.statements[1].value.value
            st       == program.statements[2]
            selected == IF valueOf(st.condition, NameA :> v) = 0
                        THEN st.elseBranch ELSE st.thenBranch
            rest     == SubSeq(program.statements, 3, Len(program.statements))
        IN  pc = "halted" /\ stdout = printedValues(selected \o rest)

\* C5, as the code has it: the run of S4 prints 3, 4, 5, ... from its first
\* turn on and never executes HLT (nor ends in an error); the JZ at the loop
\* head is not taken while n (register BX) is not 0, and it is taken once n
\* has wrapped from 65535 to 0.
WhileLeavesOnlyOnWrap ==
    /\ pc \notin {"halted", "error"}
    /\ \A i \in 1..Len(stdout) : stdout[i] = i + 2
    /\ (pc = "loaded" /\ cpu.ip = byteOffset(bytecode, loopHead)) => cpu.bx # 0
    /\ (pc = "loaded" /\ cpu.ip = bytecode[loopHead].a1) => cpu.bx = 0

\* The JZ at the loop head has just been taken, 3 having been the first output
WhileLeftOnWrap ==
    /\ pc = "loaded"
    /\ cpu.ip = bytecode[loopHead].a1
    /\ cpu.bx = 0
    /\ Len(stdout) >= 1
    /\ stdout[1] = 3

\* C5, as stated: the first output of S4 is 3, HLT is never executed and the
\* JZ at the loop head is never taken (ExecuteToBranch stops right after a
\* JZ, so ip is the JZ's operand exactly when the JZ was taken).
WhileNeverLeaves ==
    /\ pc # "halted"
    /\ Len(stdout) >= 1 => stdout[1] = 3
    /\ ~(pc = "loaded" /\ cpu.ip = bytecode[loopHead].a1)

\* C6: the code of every expression over Number, bound Variable, Add, Sub,
\* Mul and Div by a non-zero divisor leaves the expression's value modulo
\* 2^16 in AX, whatever its nesting and operand order: with a = 3 and b = 4,
\* printbro(e) prints the value of e and halts with it in AX.
ExpressionValueInAX ==
    (program \in ExprPrograms /\ pc = "halted") =>
        LET value == valueOf(program.statements[3].expr, (NameA :> 3) @@ (NameB :> 4))
        IN  cpu.ax = value /\ stdout = <<value>>

(***************************************************************************)
(* Properties of the parser (SpecFront)                                    *)
(***************************************************************************)
\* The arithmetic operator tokens, the BinaryOp each stands for and whether
\* it is a multiplicative one
ArithmeticTokens == {TPlus, TMinus, TStar, TSlash}
binaryOpOf(tok) ==
    CASE tok = TPlus -> "Add" [] tok = TMinus -> "Sub"
      [] tok = TStar -> "Mul" [] tok = TSlash -> "Div"
multiplicative(tok) == tok \in {TStar, TSlash}

\* x op1 y op2 z as the precedence rule groups it: to the right when only op2
\* is multiplicative, to the left otherwise
grouped(op1, op2) ==
    LET x == Var(<<"x">>)
        y == Var(<<"y">>)
        z == Var(<<"z">>)
    IN  IF multiplicative(op2) /\ ~multiplicative(op1)
        THEN BinaryExpr(binaryOpOf(op1), x, BinaryExpr(binaryOpOf(op2), y, z))
        ELSE BinaryExpr(binaryOpOf(op2), BinaryExpr(binaryOpOf(op1), x, y), z)

\* C7: * and / bind tighter than + and -, and operators of one level group
\* left to right: printbro(x op1 y op2 z) parses to the tree of that rule
\* (x + y * z to Add(x, Mul(y, z))), S2 parses to the Program of S2, and its
\* run prints 11 and halts.
PrecedenceAndGrouping ==
    pc # "parse" =>
        /\ \A op1 \in ArithmeticTokens, op2 \in ArithmeticTokens :
              tokens = TwoOperatorTokens(op1, op2) =>
                  /\ Len(program.statements) = 4
                  /\ program.statements[4] = PrintStatement(grouped(op1, op2))
        /\ tokens = TokensS2 =>
              /\ program = ProgramS2
              /\ pc \in {"halted", "error"} => (pc = "halted" /\ stdout = <<11>>)

\* S2 was parsed from its tokens, compiled and run, and has printed 11
PrecedenceRun ==
    /\ tokens = TokensS2
    /\ pc = "halted"
    /\ program.statements[3].expr =
          BinaryExpr("Add", Var(NameA), BinaryExpr("Mul", Var(NameB), Num(2)))
    /\ stdout = <<11>>

(***************************************************************************)
(* Properties of the symbol table (SpecCodegen, Spec)                      *)
(***************************************************************************)
\* The first-assignment order of the names generate has come to so far
assignedSoFar == firstAssigned(letNames(SubSeq(program.statements, 1, k)))

\* During a generate call the names of the symbol table are those assigned so
\* far, the i-th of them at index i, and a top-level Let ends in POP <index>
LetIndices ==
    pc \in {"gen", "generated"} =>
        /\ DOMAIN cg.symbolTable = {assignedSoFar[i] : i \in 1..Len(assignedSoFar)}
        /\ \A i \in 1..Len(assignedSoFar) : cg.symbolTable[assignedSoFar[i]] = i
        /\ \A n \in DOMAIN cg.symbolTable : cg.symbolTable[n] # 0
        /\ \A n, m \in DOMAIN cg.symbolTable :
              n # m => cg.symbolTable[n] # cg.symbolTable[m]
        /\ (pc = "gen" /\ k >= 1 /\ program.statements[k].kind = "Let") =>
              LET target == cg.instructions[Len(cg.instructions)]
              IN  /\ target.op = POP
                  /\ target.a1 = cg.symbolTable[program.statements[k].name]
                  /\ target.a1 # 0

\* Within a generate call a name of the symbol table keeps its index
SymbolsKeepIndex ==
    pc = "gen" =>
        \A n \in DOMAIN cg.symbolTable :
            n \in DOMAIN cg'.symbolTable /\ cg'.symbolTable[n] = cg.symbolTable[n]

\* C8: within one generate call the first Let of a name binds it to the next
\* unused index (1, 2, 3, ... in order of first assignment) and a later Let
\* of the name reuses it: distinct names have distinct indices, index 0 is
\* never a Let target, and symbolTable[name] never changes once set.
LetBindsNextIndexOnce == []LetIndices /\ [][SymbolsKeepIndex]_vars

\* generate has come past a second Let of a name, with two names bound
LetRebound ==
    /\ pc = "gen"
    /\ Len(letNames(SubSeq(program.statements, 1, k))) > Len(assignedSoFar)
    /\ Len(assignedSoFar) >= 2

\* The program is a straight line of Lets and Prints without division whose
\* Lets bind four or more distinct names
fourNamesStraight == straightLine(program) /\ Cardinality(boundNames(program)) >= 4

\* In the run of such a program HLT is not executed, a fatal error is the
\* invalid POP register, and ip stays inside the program image
FourNamesRunState ==
    fourNamesStraight =>
        /\ pc # "halted"
        /\ pc = "error" => stderr = "Invalid POP register"
        /\ pc = "loaded" => cpu.ip < breakLine

\* Every turn of VM::execute's loop on such a program moves ip forward
FourNamesRunAdvances ==
    (fourNamesStraight /\ pc = "loaded") => cpu'.ip > cpu.ip

\* C9, as the code has it: the run of every program that is a sequence of
\* Let and Print statements without division and binds four or more distinct
\* names ends in the fatal error "Invalid POP register" and never executes
\* HLT (the run ends: ip grows with every turn and stays below breakLine, and
\* the only way out of VM::execute's loop is then that error).
FourNamesEndInInvalidRegister == []FourNamesRunState /\ [][FourNamesRunAdvances]_vars

\* The run of a program of four Lets of four names has ended in the error
FourNamesRun ==
    /\ fourNamesStraight
    /\ pc = "error"
    /\ stderr = "Invalid POP register"

\* C9, as stated: the run of every program whose Lets bind four or more
\* distinct names ends in the fatal invalid-register error and never in HLT.
FourNamesAlwaysInvalidRegister ==
    (Cardinality(boundNames(program)) >= 4 /\ pc \in {"halted", "error"}) =>
        /\ pc = "error"
        /\ stderr \in {"Invalid PUSH register", "Invalid POP register"}

\* C10: generate is independent of what the Codegen object did before: the
\* list a call returns for a Program P, whatever calls the object has served,
\* is the list a Codegen as constructed returns for P.
GenerateIgnoresHistory ==
    pc = "generated" => bytecode = generateFresh(program)

\* A Codegen object that served an earlier call has returned the code of the
\* program only a later call is given
GenerateAfterUse ==
    /\ pc = "generated"
    /\ program = ProgramReused
    /\ bytecode = generateFresh(ProgramReused)

(***************************************************************************)
(* The VM on instruction lists of any kind, not only generate's output     *)
(***************************************************************************)
\* uint16_t operand values: the register numbers, numbers that name no
\* register, values of two bytes
VMOperands == {0, 1, 2, 3, 4, 515, 65535}

\* struct Instruction with all three fields given
Instruction3(op, a1, a2) == [op |-> op, a1 |-> a1, a2 |-> a2]

\* Every opcode of the table with every operand, and with a second operand
VMInstructions ==
    {Instruction3(o, a, 0) : o \in Opcodes, a \in VMOperands}
        \cup {Instruction3(o, 0, 772) : o \in Opcodes}

\* Instructions that bring the registers, SP and FLAGS to the values an
\* instruction is then executed from
RegisterSetup ==
    <<Instruction(MOV, 515), Instruction(MOV_BX, 4), Instruction(MOV_CX, 7),
      Instruction(MOV_DX, 65535)>>

VMPrefixes ==
    {<<>>, <<Instruction(MOV, 10)>>, RegisterSetup,
     <<Instruction(MOV_SP, 0)>>, <<Instruction(MOV_SP, 1)>>,
     <<Instruction(MOV_SP, 2)>>, <<Instruction(MOV_SP, 65534)>>,
     <<Instruction(STE, 0), Instruction(STH, 0)>>,
     <<Instruction(STE, 0), Instruction(STG, 0), Instruction(STH, 0),
       Instruction(STL, 0)>>}

VMSuffixes == {<<>>, <<Instruction(PRN, 0), Instruction(HLT, 0)>>}

\* The registers given values, SP moved to s, then PUSH r; POP r2; HLT.  With
\* s = 21 the PUSH writes over the operand of the POP.
PushPopPrograms ==
    {RegisterSetup \o <<Instruction(MOV_SP, s), Instruction(PUSH, r),
                        Instruction(POP, r2), Instruction(HLT, 0)>> :
        s \in {2, 3, 21, 65534, 65535}, r \in 0..3, r2 \in 0..3}

\* Operands of the arithmetic: 46341 is the least word whose square passes INT_MAX
ArithmeticOperands == {0, 1, 3, 256, 46340, 46341, 65535}

\* CX, DX and two flags given values, then AX = a, BX = b and one arithmetic
\* instruction, the result printed
ArithmeticPrograms ==
    {<<Instruction(MOV_CX, 7), Instruction(MOV_DX, 65535), Instruction(STG, 0),
       Instruction(STL, 0), Instruction(MOV, a), Instruction(MOV_BX, b),
       Instruction(op, 0), Instruction(PRN, 0), Instruction(HLT, 0)>> :
        a \in ArithmeticOperands, b \in ArithmeticOperands, op \in {ADD, SUB, MUL, DIV}}

\* Flags set, SP moved to s and AX = c, then the prelude of an If or a While.
\* With s = 12 the PUSH of the prelude writes over the prelude itself.
PreludePrograms ==
    {flags \o <<Instruction(MOV_SP, s), Instruction(MOV, c)>>
           \o emitPrelude(FreshCodegen).instructions
           \o <<Instruction(PRN, 0), Instruction(HLT, 0)>> :
        flags \in {<<>>, <<Instruction(STG, 0), Instruction(STL, 0)>>,
                   <<Instruction(STE, 0), Instruction(STH, 0)>>},
        s \in {2, 12, 4096, 65535}, c \in {0, 1, 515, 32768, 65535}}

\* AX = 515 pushed from SP = s, then HLT: with s = 65505 the PUSH writes the
\* bytes 0xFFDF and 0xFFE0, with s = 65535 the bytes 0xFFFD and 0xFFFE
DumpPrograms ==
    {<<Instruction(MOV, 515), Instruction(MOV_SP, s), Instruction(PUSH, 0),
       Instruction(HLT, 0)>> : s \in {65505, 65506, 65535}}

\* The instruction lists handed to VM::loadProgram
VMPrograms ==
    {p \o <<i>> \o s : p \in VMPrefixes, i \in VMInstructions, s \in VMSuffixes}
        \cup {generateFresh(ProgramS1), generateFresh(ProgramS6)}
        \cup PushPopPrograms
        \cup ArithmeticPrograms
        \cup PreludePrograms
        \cup DumpPrograms

\* VM::loadProgram(L) on a VM as constructed
LoadList(L) ==
    /\ pc = "constructed"
    /\ bytecode' = L
    /\ LET s == loadProgram(memory, L)
       IN  /\ memory' = s.memory
           /\ breakLine' = s.breakLine
    /\ pc' = "loaded"
    /\ UNCHANGED <<artifact, tokens, program, cg, k, cpu, stdout, stderr, console, cli, lexer>>

\* A VM as constructed, then given an instruction list and run
InitVM ==
    /\ Constructed
    /\ tokens = <<>>
    /\ program = Program(<<>>)
    /\ pc = "constructed"

NextVM ==
    \/ \E L \in VMPrograms : LoadList(L)
    \/ ExecuteStep

SpecVM == InitVM /\ [][NextVM]_vars

(***************************************************************************)
(* Encoding and decoding                                                   *)
(***************************************************************************)
\* The instructions that successive fetchNextInstruction calls return from
\* address ip on, until the address reaches end
RECURSIVE decodeFrom(_, _, _)
decodeFrom(m, ip, end) ==
    IF ip >= end THEN <<>>
    ELSE LET f == fetchNextInstruction([ip |-> ip], m)
         IN  IF f.ip <= ip THEN <<f.instr>>
             ELSE <<f.instr>> \o decodeFrom(m, f.ip, end)

\* An instruction with the fields its opcode does not encode set to 0
encodedFields(instr) ==
    LET size == getInstructionSize(instr.op)
    IN  [op |-> instr.op,
         a1 |-> IF size >= 2 THEN instr.a1 ELSE 0,
         a2 |-> IF size = 5 THEN instr.a2 ELSE 0]

\* C11 (amended): decoding the image loadProgram(L) writes, fetch after fetch
\* from offset 0 until breakLine bytes are consumed, yields the instructions
\* of L in order, each with its opcode and with the operands its opcode
\* encodes; an operand the opcode does not encode (a2 always, a1 of a one-byte
\* opcode) is read back as 0.  So the decoding is exactly L when those
\* operands are 0 in L.
DecodingYieldsEncodedFields ==
    [][pc = "constructed" =>
         decodeFrom(memory', 0, breakLine')
             = [n \in DOMAIN bytecode' |-> encodedFields(bytecode'[n])]]_vars

\* A list with a two-byte operand has been loaded and decodes to itself
DecodedTwoByteOperand ==
    /\ pc = "loaded"
    /\ cpu = InitialRegisters
    /\ \E n \in DOMAIN bytecode : bytecode[n] = Instruction3(JNZ, 515, 0)
    /\ \A n \in DOMAIN bytecode : bytecode[n] = encodedFields(bytecode[n])
    /\ decodeFrom(memory, 0, breakLine) = bytecode

\* C11, as stated: decoding the image of any list L yields exactly L, field
\* for field, whatever the operands a1 and a2 of its instructions are.
DecodingYieldsList ==
    [][pc = "constructed" => decodeFrom(memory', 0, breakLine') = bytecode']_vars

\* The width and the arity the opcode table gives an opcode
widthOf(o) ==
    IF o \in {MOV, MOV_BX, MOV_CX, MOV_DX, MOV_SP, PUSH, POP, JMP, JZ, JNZ} THEN 3 ELSE 1

arityOf(o) ==
    IF o \in {MOV, MOV_BX, MOV_CX, MOV_DX, MOV_SP, PUSH, POP, JMP, JZ, JNZ} THEN 1 ELSE 0

RECURSIVE widthSum(_)
widthSum(prog) ==
    IF prog = <<>> THEN 0 ELSE widthOf(Head(prog).op) + widthSum(Tail(prog))

\* Every opcode's size is 1, 3 or 5 and is 1 + 2 * arity; the instruction at
\* ip, when its opcode is of the table, makes fetchNextInstruction advance ip
\* by the opcode's width
FetchAdvancesByWidth ==
    /\ \A o \in Opcodes :
          /\ getInstructionSize(o) \in {1, 3, 5}
          /\ getInstructionSize(o) = widthOf(o)
          /\ getInstructionSize(o) = 1 + 2 * arityOf(o)
    /\ (pc = "loaded" /\ MemRead(memory, cpu.ip) \in Opcodes) =>
          fetchNextInstruction(cpu, memory).ip
              = U16(cpu.ip + widthOf(MemRead(memory, cpu.ip)))

\* loadProgram writes width(o) bytes for each instruction: the bytes written
\* are those below breakLine, and breakLine is the sum of the widths
LoadWritesWidth ==
    pc = "constructed" =>
        /\ breakLine' = widthSum(bytecode')
        /\ DOMAIN memory' \subseteq 0..(breakLine' - 1)
        /\ \A n \in DOMAIN bytecode' :
              Len(encodeInstruction(bytecode'[n])) = widthOf(bytecode'[n].op)

\* C12: width law: for every opcode o of the table, loadProgram writes
\* exactly width(o) bytes for Instruction{o, a, b}, fetchNextInstruction
\* advances IP by the same width(o), and width(o) is 1, 3 or 5 and equals
\* 1 + 2 * arity(o): 3 for MOV, MOV_BX, MOV_CX, MOV_DX, MOV_SP, PUSH, POP, JMP,
\* JZ, JNZ and 1 for every other opcode.
WidthLaw == []FetchAdvancesByWidth /\ [][LoadWritesWidth]_vars

\* PUSH 2; PRN; HLT was loaded as five bytes and the PUSH was fetched as three
FetchedThreeBytes ==
    /\ pc = "loaded"
    /\ bytecode = <<Instruction(PUSH, 2), Instruction(PRN, 0), Instruction(HLT, 0)>>
    /\ breakLine = 5
    /\ cpu.ip = 3
    /\ cpu.sp = 65533

(***************************************************************************)
(* Emitter (emitter.cpp): the list written as a C++ source artifact        *)
(***************************************************************************)
\* The first switch of writeToFile: the name written after "Opcode::"
opcodeName(op) ==
    CASE op = NOP -> "NOP"
      [] op = HLT -> "HLT"
      [] op = MOV -> "MOV"
      [] op = MOV_BX -> "MOV_BX"
      [] op = MOV_CX -> "MOV_CX"
      [] op = MOV_DX -> "MOV_DX"
      [] op = MOV_SP -> "MOV_SP"
      [] op = ADD -> "ADD"
      [] op = SUB -> "SUB"
      [] op = MUL -> "MUL"
      [] op = DIV -> "DIV"
      [] op = PUSH -> "PUSH"
      [] op = POP -> "POP"
      [] op = STE -> "STE"
      [] op = CLE -> "CLE"
      [] op = STG -> "STG"
      [] op = CLG -> "CLG"
      [] op = STH -> "STH"
      [] op = CLH -> "CLH"
      [] op = STL -> "STL"
      [] op = CLL -> "CLL"
      [] op = PRN -> "PRN"
      [] OTHER -> "NOP"

\* The second switch of writeToFile: the opcodes whose a1 is written
writesOperand(op) == op \in {MOV, MOV_BX, MOV_CX, MOV_DX, MOV_SP, PUSH, POP}

\* The line writeToFile writes for one instruction, "{Opcode::NAME, a1}," or
\* "{Opcode::NAME},": the name and the operand written, if any
emittedTuple(instr) ==
    [name |-> opcodeName(instr.op),
     operand |-> IF writesOperand(instr.op) THEN <<instr.a1>> ELSE <<>>]

\* Emitter::writeToFile: one tuple per instruction, in order
writeToFile(instructions) ==
    [n \in DOMAIN instructions |-> emittedTuple(instructions[n])]

\* enum class Opcode: the value of the enumerator a name denotes
OpcodeEnum ==
    [NOP |-> NOP, HLT |-> HLT, MOV |-> MOV, MOV_BX |-> MOV_BX, MOV_CX |-> MOV_CX,
     MOV_DX |-> MOV_DX, MOV_SP |-> MOV_SP, STE |-> STE, CLE |-> CLE, STG |-> STG,
     CLG |-> CLG, STH |-> STH, CLH |-> CLH, STL |-> STL, CLL |-> CLL,
     PUSH |-> PUSH, POP |-> POP, ADD |-> ADD, SUB |-> SUB, MUL |-> MUL,
     DIV |-> DIV, PRN |-> PRN, JMP |-> JMP, JZ |-> JZ, JNZ |-> JNZ]

\* The Instruction a tuple of the artifact initialises: the named opcode, a1
\* when the tuple gives it, and the default 0 for what it does not give
tupleInstruction(t) ==
    Instruction3(OpcodeEnum[t.name], IF t.operand = <<>> THEN 0 ELSE t.operand[1], 0)

\* std::vector<Instruction> prog, as the artifact declares it
artifactProgram(tuples) == [n \in DOMAIN tuples |-> tupleInstruction(tuples[n])]

\* Emitter::writeToFile(outputFile, bytecode) (broc.cpp, step 5)
Emit ==
    /\ pc = "generated"
    /\ artifact' = writeToFile(bytecode)
    /\ pc' = "emitted"
    /\ UNCHANGED <<tokens, program, cg, k, bytecode, cpu, memory, breakLine, stdout, stderr, console, cli, lexer>>

\* VM::loadProgram(prog) in a program built from the artifact
LoadArtifact ==
    /\ pc = "emitted"
    /\ LET s == loadProgram(memory, artifactProgram(artifact))
       IN  /\ memory' = s.memory
           /\ breakLine' = s.breakLine
    /\ pc' = "loaded"
    /\ UNCHANGED <<artifact, tokens, program, cg, k, bytecode, cpu, stdout, stderr, console, cli, lexer>>

\* Compile a program, emit the artifact, load the artifact's list and run it
NextEmit ==
    \/ Generate
    \/ GenStatement
    \/ FinishGenerate
    \/ Emit
    \/ LoadArtifact
    \/ ExecuteStep

SpecEmit == InitCodegen /\ [][NextEmit]_vars

\* C13: the emitter preserves the program: the artifact declares, in the
\* order of generate's list, one tuple per instruction that names the
\* instruction's own opcode and carries its a1 whenever the opcode has arity
\* 1, and loading the artifact's list yields the byte image that loading
\* generate's list yields.
EmitterPreservesProgram ==
    /\ pc = "emitted" =>
          /\ Len(artifact) = Len(bytecode)
          /\ \A n \in DOMAIN bytecode :
                /\ OpcodeEnum[artifact[n].name] = bytecode[n].op
                /\ arityOf(bytecode[n].op) = 1 => artifact[n].operand = <<bytecode[n].a1>>
    /\ (pc = "loaded" /\ cpu = InitialRegisters) =>
          /\ memory = loadProgram(EmptyMap, bytecode).memory
          /\ breakLine = loadProgram(EmptyMap, bytecode).breakLine

(***************************************************************************)
(* Fatal errors of the VM                                                  *)
(***************************************************************************)
\* The opcode VM::execute's next turn fetches
nextOpcode == MemRead(memory, cpu.ip)

\* The operand a1 VM::execute's next turn fetches
nextOperand == fetchNextInstruction(cpu, memory).instr.a1

\* The registers as executeInstruction finds them: ip moved past the
\* instruction by the fetch
fetched == [cpu EXCEPT !.ip = fetchNextInstruction(cpu, memory).ip]

\* This turn ends the run in the fatal error msg and changes nothing but ip,
\* which the fetch has moved
FatalTurn(msg) ==
    /\ pc' = "error"
    /\ stderr' = msg
    /\ cpu' = fetched
    /\ memory' = memory
    /\ stdout' = stdout

\* A turn that executes DIV with BX = 0 ends the run in "Division by zero"
\* with the registers and memory as they were
DivByZeroTurn ==
    (pc = "loaded" /\ nextOpcode = DIV /\ cpu.bx = 0) => FatalTurn("Division by zero")

\* Nothing is executed after a fatal error
ErrorIsFinal == pc # "error"

\* The run of letbro a = 10; letbro b = 0; printbro(a / b); prints nothing
\* and ends, if it ends, in the error
DivExample ==
    bytecode = generateFresh(ProgramS6) =>
        /\ stdout = <<>>
        /\ pc # "halted"
        /\ pc = "error" => stderr = "Division by zero"

\* C14: DIV executed with BX = 0 ends execution in the fatal error "Division
\* by zero": no division is performed, AX, the other registers and memory are
\* left as executeInstruction found them, and no later instruction is
\* executed; the code of letbro a = 10; letbro b = 0; printbro(a / b); ends
\* with that error and prints no Output line.
DivisionByZeroIsFatal ==
    []DivExample /\ [][DivByZeroTurn /\ ErrorIsFinal]_vars

\* The example's run has ended in the error, with a = 10 in AX and b = 0 in BX
DivExampleEnded ==
    /\ bytecode = generateFresh(ProgramS6)
    /\ pc = "error"
    /\ stderr = "Division by zero"
    /\ cpu.ax = 10
    /\ cpu.bx = 0
    /\ stdout = <<>>

(***************************************************************************)
(* The stack at its limits                                                 *)
(***************************************************************************)
\* The registers given values, SP moved to s, then one PUSH or POP, then
\* PRN and HLT
StackEdgePrograms ==
    {RegisterSetup \o <<Instruction(MOV_SP, s), Instruction(op, r),
                        Instruction(PRN, 0), Instruction(HLT, 0)>> :
        s \in {0, 1, 2, 3, 65533, 65534, 65535}, op \in {PUSH, POP}, r \in 0..3}

\* A loop of 32768 turns that pushes CX = 0 in each turn and counts the
\* turns left in AX
PushLoop ==
    <<Instruction(MOV, 32768), Instruction(MOV_BX, 1), Instruction(PUSH, 2),
      Instruction(SUB, 0), Instruction(JNZ, 6), Instruction(HLT, 0)>>

\* The same loop with SP moved back to 0xFFFF after each PUSH
PushResetLoop ==
    <<Instruction(MOV, 32768), Instruction(MOV_BX, 1), Instruction(PUSH, 2),
      Instruction(MOV_SP, 65535), Instruction(SUB, 0), Instruction(JNZ, 6),
      Instruction(HLT, 0)>>

StackPrograms == StackEdgePrograms \cup {PushLoop, PushResetLoop}

\* A VM as constructed, given one of the stack programs and run, observed
\* after each conditional jump
NextStack ==
    \/ \E L \in StackPrograms : LoadList(L)
    \/ ExecuteToBranch

SpecStack == InitVM /\ [][NextStack]_vars

\* The registers RegisterSetup leaves, by register number
setupValue(r) == CASE r = 0 -> 515 [] r = 1 -> 4 [] r = 2 -> 7 [] r = 3 -> 65535

registerOf(c, r) == CASE r = 0 -> c.ax [] r = 1 -> c.bx [] r = 2 -> c.cx [] r = 3 -> c.dx

\* The run of a stack-edge program has ended: a PUSH found SP < 2 and ended
\* it in "Stack Overflow", a POP found SP > 65534 and ended it in "Stack
\* Underflow", in both cases with SP, the four registers and memory as they
\* were before the instruction; any other PUSH or POP moved SP by 2 and the
\* run went on to HLT
StackEdgeEnded ==
    (bytecode \in StackEdgePrograms /\ pc \in {"halted", "error"}) =>
        LET s == bytecode[5].a1
            op == bytecode[6].op
            image == loadProgram(EmptyMap, bytecode).memory
            kept ==
                /\ pc = "error"
                /\ stdout = <<>>
                /\ cpu.sp = s
                /\ \A r \in 0..3 : registerOf(cpu, r) = setupValue(r)
                /\ memory = image
        IN  /\ (op = PUSH /\ s < 2) => (kept /\ stderr = "Stack Overflow")
            /\ (op = POP /\ s > 65534) => (kept /\ stderr = "Stack Underflow")
            /\ (op = PUSH /\ s >= 2) => (pc = "halted" /\ cpu.sp = s - 2)
            /\ (op = POP /\ s <= 65534) => (pc = "halted" /\ cpu.sp = U16(s + 2))

\* The PUSHes a counting loop has executed when it stands at its head
pushesDone == 32768 - cpu.ax

\* PushLoop changes SP by PUSH only: as long as the stack has not reached
\* the program image, SP is 0xFFFF less two for each PUSH executed, and no
\* PUSH has failed
SPFollowsDepth ==
    (bytecode = PushLoop /\ pc = "loaded" /\ cpu.ip = 6 /\ cpu.sp >= breakLine) =>
        /\ cpu.sp = 65535 - 2 * pushesDone
        /\ stderr = ""

\* A PUSH at depth 32767 finds SP = 1
DepthArithmetic == 65535 - 2 * 32767 = 1 /\ 65535 - 2 * 32766 >= 2

\* C15 (amended): PUSH executed with SP < 2 ends in fatal "Stack Overflow"
\* and POP executed with SP > 65534 ends in fatal "Stack Underflow", in both
\* cases without changing SP, the registers or memory.  In an execution that
\* starts from SP = 0xFFFF and changes SP by PUSH and POP only, SP is 0xFFFF
\* less twice the number by which the PUSHes outnumber the POPs, so the PUSH
\* attempted when they outnumber them by 32767 finds SP = 1 and ends in Stack
\* Overflow instead of wrapping SP around.
StackLimitsAreFatal == StackEdgeEnded /\ SPFollowsDepth /\ DepthArithmetic

\* PUSH 2 with SP = 1 has ended the run in Stack Overflow, SP still 1
PushOverflowed ==
    /\ bytecode \in StackEdgePrograms
    /\ bytecode[5].a1 = 1
    /\ bytecode[6] = Instruction(PUSH, 2)
    /\ pc = "error"
    /\ stderr = "Stack Overflow"
    /\ cpu.sp = 1

\* C15, as stated: starting from SP = 0xFFFF, an execution whose PUSHes
\* outnumber its POPs by 32768 ends in Stack Overflow.
PushesOutnumberingEndInOverflow ==
    (/\ bytecode \in {PushLoop, PushResetLoop}
     /\ cpu.bx = 1
     /\ pushesDone >= 32768
     /\ pc \in {"halted", "error"}) => stderr = "Stack Overflow"

\* The 16-bit word memory m holds at address a, low byte first
wordAt(m, a) == MemRead(m, a) + Byte * MemRead(m, U16(a + 1))

\* A turn that executes PUSH or POP with an operand other than 0, 1, 2, 3
\* ends the run in the invalid-register error and changes nothing but ip,
\* which the fetch has moved
InvalidRegisterTurn ==
    (pc = "loaded" /\ nextOpcode \in {PUSH, POP} /\ nextOperand \notin 0..3) =>
        FatalTurn(IF nextOpcode = PUSH THEN "Invalid PUSH register"
                                       ELSE "Invalid POP register")

\* PUSH r with r in 0..3 and room on the stack stores the word of register
\* number r (0 AX, 1 BX, 2 CX, 3 DX) at the new SP and changes no register
\* but SP and ip
PushSelectsRegister ==
    (pc = "loaded" /\ nextOpcode = PUSH /\ nextOperand \in 0..3 /\ cpu.sp >= 2) =>
        /\ pc' # "error"
        /\ cpu' = [fetched EXCEPT !.sp = cpu.sp - 2]
        /\ wordAt(memory', cpu.sp - 2) = registerOf(cpu, nextOperand)

\* POP r with r in 0..3 and a word to pop loads the word at SP into register
\* number r and changes no other register but SP and ip
PopSelectsRegister ==
    (pc = "loaded" /\ nextOpcode = POP /\ nextOperand \in 0..3 /\ cpu.sp <= 65534) =>
        /\ pc' # "error"
        /\ memory' = memory
        /\ registerOf(cpu', nextOperand) = wordAt(memory, cpu.sp)
        /\ cpu'.sp = U16(cpu.sp + 2)
        /\ cpu'.ip = fetched.ip
        /\ cpu'.flags = cpu.flags
        /\ \A r \in 0..3 \ {nextOperand} : registerOf(cpu', r) = registerOf(cpu, r)

\* C16: PUSH or POP whose operand is not 0, 1, 2 or 3 ends execution in the
\* fatal invalid-register error, with SP, memory and all registers other
\* than IP unchanged; operands 0, 1, 2, 3 select AX, BX, CX, DX respectively.
InvalidRegisterIsFatal ==
    [][InvalidRegisterTurn /\ PushSelectsRegister /\ PopSelectsRegister]_vars

\* PUSH 4 has ended the run that had loaded the four registers
InvalidPushEnded ==
    /\ pc = "error"
    /\ stderr = "Invalid PUSH register"
    /\ \A r \in 0..3 : registerOf(cpu, r) = setupValue(r)
    /\ cpu.sp = 65535
    /\ memory = loadProgram(EmptyMap, bytecode).memory
    /\ \E n \in DOMAIN bytecode : bytecode[n] = Instruction(PUSH, 4)

\* What VM::execute's next turn does in this state: the outcome of the fetch
\* and the execution
nextTurn ==
    executeInstruction(fetchNextInstruction(cpu, memory).instr, fetched, memory)

\* Where the next byte to fetch is not an opcode of the table, the turn is
\* fatal: it ends the run in "Illegal Instruction" with the registers
\* (ip as well: the size of an unknown opcode is 0) and memory unchanged
UnknownByteIsFatal ==
    (pc = "loaded" /\ nextOpcode \notin Opcodes) =>
        /\ nextTurn.error = "Illegal Instruction"
        /\ nextTurn.cpu = cpu
        /\ nextTurn.memory = memory
        /\ nextTurn.printed = <<>>

\* The turn taken on a byte that is not an opcode ends the run
IllegalInstructionTurn ==
    (pc = "loaded" /\ nextOpcode \notin Opcodes) =>
        (FatalTurn("Illegal Instruction") /\ cpu' = cpu)

\* C17: when the byte at IP is not an opcode of the table (0x00 in
\* zero-initialised memory reached by running or jumping past the program
\* included), execution ends in the fatal error "Illegal Instruction"
\* without changing AX, BX, CX, DX, SP, FLAGS or memory; the VM does not loop
\* on an unknown byte: the turn that fetches it is the last.
IllegalInstructionIsFatal ==
    []UnknownByteIsFatal /\ [][IllegalInstructionTurn /\ ErrorIsFinal]_vars

\* A jump far past the program has ended the run on a zero byte
JumpedPastProgram ==
    /\ pc = "error"
    /\ stderr = "Illegal Instruction"
    /\ cpu.ip = 515
    /\ breakLine < 515
    /\ MemRead(memory, cpu.ip) = 0
    /\ cpu.flags = 15

(***************************************************************************)
(* A VM that is given several programs before it executes                  *)
(***************************************************************************)
\* VM::loadProgram(L) on a VM that has been loaded and has not executed
LoadAgain(L) ==
    /\ pc = "loaded"
    /\ bytecode' = L
    /\ LET s == loadProgram(memory, L)
       IN  /\ memory' = s.memory
           /\ breakLine' = s.breakLine
    /\ UNCHANGED <<artifact, tokens, program, cg, k, cpu, stdout, stderr, console, cli, lexer, pc>>

\* Lists of several lengths: the codes of S1, S2, S3 and S6, single
\* instructions, the empty list
LoadPrograms ==
    {<<>>, generateFresh(ProgramS1), generateFresh(ProgramS2),
     generateFresh(ProgramS3), generateFresh(ProgramS6)}
        \cup {<<Instruction(o, 515)>> : o \in {HLT, MOV_DX, JMP}}
        \cup {RegisterSetup \o <<Instruction(o, 772)>> : o \in {PRN, PUSH}}

\* A VM as constructed and the loadProgram calls made before execute
NextLoads ==
    \/ \E L \in LoadPrograms : LoadList(L)
    \/ \E L \in LoadPrograms : LoadAgain(L)

SpecLoads == InitVM /\ [][NextLoads]_vars

\* C18: before execution begins, after constructing a VM and one or more
\* loadProgram calls, AX = BX = CX = DX = IP = FLAGS = 0, SP = 0xFFFF, bytes
\* [0, breakLine) hold the encoding of the last loaded program, breakLine is
\* the sum of its instruction widths, and every memory byte at or above
\* breakLine is 0.
LoadedStateIsClean ==
    pc = "loaded" =>
        /\ cpu = [ax |-> 0, bx |-> 0, cx |-> 0, dx |-> 0, sp |-> 65535, ip |-> 0,
                  flags |-> 0]
        /\ breakLine = widthSum(bytecode)
        /\ \A a \in 0..(breakLine - 1) : MemRead(memory, a) = encodeFrom(bytecode, 1)[a + 1]
        /\ \A a \in DOMAIN memory : a < breakLine

(***************************************************************************)
(* Stack balance of the generated code                                     *)
(***************************************************************************)
\* The PUSHes less the POPs among the instructions from..to of prog
netPushes(prog, from, to) ==
    Cardinality({i \in from..to : prog[i].op = PUSH})
        - Cardinality({i \in from..to : prog[i].op = POP})

\* Instructions from..to of prog hold as many POPs as PUSHes, and no POP
\* comes before its PUSH
balanced(prog, from, to) ==
    /\ netPushes(prog, from, to) = 0
    /\ \A n \in from..to : netPushes(prog, from, n) >= 0

\* A program of Let and Print statements only
noControl(P) == \A i \in 1..Len(P.statements) : P.statements[i].kind \in {"Let", "Print"}

\* The number of instructions generate emits for the first j statements of P
codeLength(P, j) == Len(genBlock(FreshCodegen, SubSeq(P.statements, 1, j), 1).instructions)

\* The instructions executed so far in a run that has not jumped: the
\* instruction count at which the byte offset is ip
executedCount == CHOOSE n \in 0..Len(bytecode) : byteOffset(bytecode, n) = cpu.ip

\* The list generate returned is balanced as a whole, and for a program of
\* Lets and Prints the code of each statement is balanced
CodeIsBalanced ==
    pc = "generated" =>
        /\ balanced(bytecode, 1, Len(bytecode))
        /\ noControl(program) =>
              \A j \in 1..Len(program.statements) :
                  balanced(bytecode, codeLength(program, j - 1) + 1, codeLength(program, j))

\* In the run of a program of Lets and Prints SP is 0xFFFF less two for each
\* PUSH not yet popped, so it is 0xFFFF again after each statement and at
\* HLT, and neither stack error is raised
RunIsBalanced ==
    noControl(program) =>
        /\ stderr \notin {"Stack Underflow", "Stack Overflow"}
        /\ pc = "halted" => cpu.sp = 65535
        /\ pc = "loaded" =>
              \A n \in {executedCount} :
                  /\ cpu.sp = 65535 - 2 * netPushes(bytecode, 1, n)
                  /\ n \in {codeLength(program, j) : j \in 0..Len(program.statements)}
                        => cpu.sp = 65535

\* C19 (amended): stack balance: the code generate emits for any expression,
\* and for any Let or Print statement, contains as many POPs as PUSHes with
\* every POP preceded by its PUSH, so executing it from SP = s ends, unless
\* a fatal error ends it, with SP = s; a program with no If/While that
\* reaches HLT does so with SP = 0xFFFF, and no such program raises Stack
\* Underflow or Stack Overflow.
StackBalance == CodeIsBalanced /\ RunIsBalanced

\* S2 has run to HLT: its three statements, eight PUSHes and eight POPs
BalancedRunHalted ==
    /\ program = ProgramS2
    /\ pc = "halted"
    /\ cpu.sp = 65535
    /\ netPushes(bytecode, 1, Len(bytecode)) = 0
    /\ Cardinality({i \in DOMAIN bytecode : bytecode[i].op = PUSH}) = 8

\* C19, as stated: a program with no If/While reaches HLT with SP = 0xFFFF:
\* its run, once ended, has ended at HLT with SP = 0xFFFF.
StraightRunsEndAtHalt ==
    (noControl(program) /\ pc \in {"halted", "error"}) =>
        (pc = "halted" /\ cpu.sp = 65535)

(***************************************************************************)
(* The FLAGS register                                                      *)
(***************************************************************************)
FlagSetters  == {STE, STG, STH, STL}
FlagClearers == {CLE, CLG, CLH, CLL}

\* The bit of FLAGS the flag opcode op sets or clears
ownMask(op) ==
    CASE op \in {STE, CLE} -> FlagEqual
      [] op \in {STG, CLG} -> FlagGreater
      [] op \in {STH, CLH} -> FlagHigher
      [] op \in {STL, CLL} -> FlagLower

\* The bit mask of the word flags, as 0 or 1
bitOf(flags, mask) == (flags \div mask) % 2

\* A turn that executes a flag opcode sets or clears the opcode's own bit,
\* leaves the other bits of FLAGS, the other registers (ip moved past the
\* one byte by the fetch) and memory as they were, prints nothing and goes on
FlagOpTurn ==
    (pc = "loaded" /\ nextOpcode \in FlagSetters \cup FlagClearers) =>
        /\ \A mask \in {FlagEqual, FlagGreater, FlagHigher, FlagLower} :
              bitOf(cpu'.flags, mask) =
                  IF mask = ownMask(nextOpcode)
                  THEN (IF nextOpcode \in FlagSetters THEN 1 ELSE 0)
                  ELSE bitOf(cpu.flags, mask)
        /\ cpu'.flags \div 16 = cpu.flags \div 16
        /\ [cpu' EXCEPT !.flags = cpu.flags] = [cpu EXCEPT !.ip = U16(cpu.ip + 1)]
        /\ memory' = memory
        /\ stdout' = stdout
        /\ stderr' = ""
        /\ pc' = "loaded"

\* A turn that executes anything else leaves FLAGS as it was
OtherOpTurn ==
    (pc = "loaded" /\ nextOpcode \notin FlagSetters \cup FlagClearers) =>
        cpu'.flags = cpu.flags

\* The values of the four flag bits
FlagValues == 0..(2 * FlagEqual - 1)

\* Whatever FLAGS holds, the next turn fetches the same instruction and
\* leaves the same registers but FLAGS, the same memory, the same output and
\* the same error
FlagsAreNotRead ==
    pc = "loaded" =>
        \A f \in FlagValues :
            LET cf == [cpu EXCEPT !.flags = f]
                ff == fetchNextInstruction(cf, memory)
                rf == executeInstruction(ff.instr, [cf EXCEPT !.ip = ff.ip], memory)
            IN  /\ ff = fetchNextInstruction(cpu, memory)
                /\ [rf.cpu EXCEPT !.flags = 0] = [nextTurn.cpu EXCEPT !.flags = 0]
                /\ rf.memory = nextTurn.memory
                /\ rf.printed = nextTurn.printed
                /\ rf.error = nextTurn.error

\* C20: each of STE/CLE/STG/CLG/STH/CLH/STL/CLL changes only its own bit of
\* FLAGS (Equal 0x08, Greater 0x04, Higher 0x02, Lower 0x01) and leaves every
\* other FLAGS bit and every other register unchanged; no other opcode ever
\* changes FLAGS, and no opcode's effect on registers, memory or IP depends
\* on FLAGS.
FlagsFrame ==
    /\ FlagEqual = 8 /\ FlagGreater = 4 /\ FlagHigher = 2 /\ FlagLower = 1
    /\ []FlagsAreNotRead
    /\ [][FlagOpTurn /\ OtherOpTurn]_vars

\* STE, STH, CLE have executed: Equal is cleared again and Higher is still set
EqualClearedHigherKept ==
    /\ Len(bytecode) >= 3
    /\ bytecode[1].op = STE /\ bytecode[2].op = STH /\ bytecode[3].op = CLE
    /\ pc = "loaded"
    /\ cpu.ip = 3
    /\ cpu.flags = FlagHigher

(***************************************************************************)
(* HLT                                                                     *)
(***************************************************************************)
\* The turn that executes HLT ends the loop: it writes the state dump (the
\* line "System Halted", the registers in decimal, 32 bytes below 0xFFFF in
\* hex) and then "Program Halted.", and changes no register but ip, which
\* the fetch has moved, and no memory byte
HaltTurn ==
    (pc = "loaded" /\ nextOpcode = HLT) =>
        /\ pc' = "halted"
        /\ cpu' = [cpu EXCEPT !.ip = U16(cpu.ip + 1)]
        /\ memory' = memory
        /\ stdout' = stdout
        /\ stderr' = ""
        /\ LET n == Len(console')
           IN  /\ n = (IF console = <<>> THEN 1 ELSE Len(console)) + 4
               /\ console'[n - 3] = <<"System Halted">>
               /\ console'[n - 2] =
                      <<"AX: ">> \o decimal(cpu.ax) \o <<", BX: ">> \o decimal(cpu.bx)
                          \o <<", CX: ">> \o decimal(cpu.cx) \o <<", DX: ">>
                          \o decimal(cpu.dx) \o <<", SP: ">> \o decimal(cpu.sp)
               /\ Len(console'[n - 1]) = 3 * 32
               /\ console'[n] = <<"Program Halted.">>
               /\ \A i \in 1..Len(console) : console'[i] = console[i]

\* No step is taken once HLT has executed: nothing more is fetched, executed
\* or written
HaltedIsFinal == pc # "halted"

\* A halted VM stands right after a HLT byte and has written its farewell
HaltedAfterHLT ==
    pc = "halted" =>
        /\ MemRead(memory, U16(cpu.ip - 1)) = HLT
        /\ console[Len(console)] = <<"Program Halted.">>

\* C21: execution stops at the first HLT that is executed: after HLT no
\* further instruction is fetched or executed, the state dump has been
\* emitted, and HLT itself changes no register other than IP and no memory
\* byte.
StopsAtFirstHLT == []HaltedAfterHLT /\ [][HaltTurn /\ HaltedIsFinal]_vars

\* MOV 10; HLT; PRN; HLT has stopped at its first HLT: nothing was printed
StoppedBeforePrint ==
    /\ Len(bytecode) = 4
    /\ bytecode[1].op = MOV /\ bytecode[2].op = HLT
    /\ bytecode[3].op = PRN /\ bytecode[4].op = HLT
    /\ pc = "halted"
    /\ cpu.ip = 4
    /\ cpu.ax = 10
    /\ stdout = <<>>
    /\ Len(console) = 5

(***************************************************************************)
(* PRN                                                                     *)
(***************************************************************************)
\* The turn that executes PRN changes no register but ip, which the fetch
\* has moved, and no memory byte, and goes on; it appends to the console the
\* line "Output: " and the line "HUMAN OUTPUT: ", each followed by the
\* digits of AX
PrintTurn ==
    (pc = "loaded" /\ nextOpcode = PRN) =>
        /\ cpu' = [cpu EXCEPT !.ip = U16(cpu.ip + 1)]
        /\ memory' = memory
        /\ stderr' = ""
        /\ pc' = "loaded"
        /\ Len(stdout) < MaxOutput =>
              LET n == Len(console')
              IN  /\ n = (IF console = <<>> THEN 1 ELSE Len(console)) + 2
                  /\ Head(console'[n - 1]) = "Output: "
                  /\ Head(console'[n]) = "HUMAN OUTPUT: "
                  /\ Tail(console'[n - 1]) = Tail(console'[n])
                  /\ stoi(Tail(console'[n])) = cpu.ax
                  /\ \A i \in 1..Len(console) : console'[i] = console[i]

\* The digits written are those of an unsigned decimal: digits only, no
\* leading zero but for 0 itself
UnsignedDecimal(text) ==
    /\ Len(text) >= 1
    /\ \A i \in 1..Len(text) : text[i] \in {DecimalDigits[d] : d \in 1..10}
    /\ Len(text) > 1 => text[1] # "0"

\* The console of a VM that has started: the banner, then for each PRN
\* executed its two lines, in the order of execution, and for a halted VM
\* the three lines of the dump and "Program Halted." at the very end
ConsoleInOrder ==
    console # <<>> =>
        /\ console[1] = <<"Starting VM Execution...">>
        /\ \A i \in 1..Len(stdout) :
              /\ console[2 * i] = <<"Output: ">> \o decimal(stdout[i])
              /\ console[2 * i + 1] = <<"HUMAN OUTPUT: ">> \o decimal(stdout[i])
              /\ UnsignedDecimal(decimal(stdout[i]))
        /\ Len(console) = 1 + 2 * Len(stdout) + (IF pc = "halted" THEN 4 ELSE 0)
        /\ \A i \in 1..Len(console) :
              console[i] = <<"Program Halted.">> => (pc = "halted" /\ i = Len(console))

\* printbro(42); yields Output: 42, HUMAN OUTPUT: 42, Program Halted.
S1Console ==
    (bytecode = generateFresh(ProgramS1) /\ pc = "halted") =>
        /\ console[2] = <<"Output: ", "4", "2">>
        /\ console[3] = <<"HUMAN OUTPUT: ", "4", "2">>
        /\ console[Len(console)] = <<"Program Halted.">>
        /\ Len(console) = 7

\* C22: each executed PRN emits the line `Output: <AX>` immediately followed
\* by `HUMAN OUTPUT: <AX>` with the current AX as an unsigned decimal and
\* changes no register or memory; output lines appear in execution order and
\* before the final `Program Halted.`, so `printbro(42);` yields
\* `Output: 42`, `HUMAN OUTPUT: 42`, `Program Halted.` in that order.
PrintEmitsTwoLines == []ConsoleInOrder /\ []S1Console /\ [][PrintTurn]_vars

\* MOV 65535; PRN; HLT has printed 65535 and halted
PrintedLargestWord ==
    /\ pc = "halted"
    /\ stdout = <<65535>>
    /\ console[2] = <<"Output: ", "6", "5", "5", "3", "5">>
    /\ console[3] = <<"HUMAN OUTPUT: ", "6", "5", "5", "3", "5">>

(***************************************************************************)
(* The compiler's command line (broc.cpp)                                  *)
(***************************************************************************)
\* The arguments after the program's name: argc is their number plus one
ArgumentLists ==
    {<<>>, <<"in.bro">>, <<"in.bro", "-o">>, <<"in.bro", "-o", "out.cpp">>,
     <<"in.bro", "-x", "out.cpp">>, <<"-o", "in.bro", "out.cpp">>,
     <<"in.bro", "out.cpp", "-o">>, <<"-o", "-o", "-o">>,
     <<"in.bro", "-o", "out.cpp", "more">>}

\* The digits of INT_MAX and of INT_MAX + 1
DigitsIntMax == <<"2", "1", "4", "7", "4", "8", "3", "6", "4", "7">>
DigitsPastIntMax == <<"2", "1", "4", "7", "4", "8", "3", "6", "4", "8">>

\* The tokens of the input file: S2, S3, a let that lacks its value, and
\* numbers at and past INT_MAX in a let, at the start of a statement, in a
\* let that lacks its semicolon
SourceTokens ==
    {<<>>, TokensS2, TokensS3,
     <<KwLet, Ident("a"), TAssign, TSemi, KwPrint, TLParen, Numeral(<<"1">>), TRParen, TSemi>>,
     LetTokens("a", DigitsIntMax),
     LetTokens("a", DigitsPastIntMax),
     <<Numeral(DigitsPastIntMax), TSemi, KwPrint, TLParen, Numeral(<<"1">>), TRParen, TSemi>>,
     <<KwPrint, TLParen, Numeral(<<"1">>), TRParen, TSemi,
       KwLet, Ident("a"), TAssign, TLParen, Numeral(DigitsPastIntMax)>>}

\* broc is started: any of the argument lists, an input file that opens or
\* not, an output file that opens or not and, once open, takes what is
\* written to it or not (a full device)
InitCli ==
    /\ cg = FreshCodegen /\ k = 0 /\ bytecode = <<>> /\ artifact = <<>>
    /\ cpu = InitialRegisters /\ memory = EmptyMap /\ breakLine = 0
    /\ stdout = <<>> /\ stderr = "" /\ console = <<>> /\ lexer = Lexer(<<>>)
    /\ program = Program(<<>>)
    /\ tokens \in SourceTokens
    /\ cli \in [args : ArgumentLists, inputOpens : BOOLEAN, outputOpens : BOOLEAN,
                outputWrites : BOOLEAN, usage : {FALSE}, status : {-1}]
    /\ pc = "main"

\* main, step 0: the test of argc and argv[2]
CheckArguments ==
    /\ pc = "main"
    /\ IF Len(cli.args) + 1 # 4 \/ cli.args[2] # "-o"
       THEN /\ cli' = [cli EXCEPT !.usage = TRUE, !.status = 1]
            /\ pc' = "exited"
       ELSE /\ cli' = cli
            /\ pc' = "compile"
    /\ UNCHANGED <<artifact, tokens, program, cg, k, bytecode, cpu, memory, breakLine,
                   stdout, stderr, console, lexer>>

\* main, steps 1 to 5 inside the try block: readFile, the lexer's tokens,
\* parseProgram, generate, Emitter::writeToFile.  readFile throws when the
\* input does not open and parseProgram may throw: the catch returns 1.
\* writeToFile returns false when the output does not open; once it is
\* open it writes, closes and returns true whatever became of the writes.
CompileFile ==
    /\ pc = "compile"
    /\ pc' = "exited"
    /\ IF ~cli.inputOpens \/ parseThrows(tokens)
       THEN /\ cli' = [cli EXCEPT !.status = 1]
            /\ UNCHANGED <<program, bytecode, artifact>>
       ELSE /\ program' = parseProgram(tokens)
            /\ bytecode' = generateFresh(parseProgram(tokens))
            /\ artifact' = IF cli.outputOpens /\ cli.outputWrites
                           THEN writeToFile(generateFresh(parseProgram(tokens)))
                           ELSE <<>>
            /\ cli' = [cli EXCEPT !.status = IF cli.outputOpens THEN 0 ELSE 1]
    /\ UNCHANGED <<tokens, cg, k, cpu, memory, breakLine, stdout, stderr, console, lexer>>

NextCli == CheckArguments \/ CompileFile

SpecCli == InitCli /\ [][NextCli]_vars

\* Exactly three arguments with the literal -o as the second
validShape == Len(cli.args) = 3 /\ cli.args[2] = "-o"

\* C23: the compiler CLI exits with status 1 (after the usage banner) unless
\* it gets exactly three arguments with the literal `-o` as the second; with
\* a valid shape it exits 1 when the input file cannot be opened, when an
\* exception is raised during compilation, or when the emitter cannot write
\* the output, and exits 0 otherwise.
ExitStatusOfCompiler ==
    pc = "exited" =>
        /\ cli.usage = ~validShape
        /\ cli.status =
              IF /\ validShape
                 /\ cli.inputOpens
                 /\ ~parseThrows(tokens)
                 /\ cli.outputOpens /\ cli.outputWrites
              THEN 0 ELSE 1

(***************************************************************************)
(* Statements that lack a token the parser expects                         *)
(***************************************************************************)
\* The sequence s without its i-th element
RemoveAt(s, i) == SubSeq(s, 1, i - 1) \o SubSeq(s, i + 1, Len(s))

\* printbro(<digit>);
PrintTokens(digit) == <<KwPrint, TLParen, Numeral(<<digit>>), TRParen, TSemi>>

\* letbro a = (1);
ParenLetTokens == <<KwLet, Ident("a"), TAssign, TLParen, Numeral(<<"1">>), TRParen, TSemi>>

\* ifbro (1) { printbro(1); } elsebro { printbro(2); }
IfElseTokens ==
    <<KwIf, TLParen, Numeral(<<"1">>), TRParen, TLBrace>> \o PrintTokens("1")
        \o <<TRBrace, KwElse, TLBrace>> \o PrintTokens("2") \o <<TRBrace>>

\* whilebro (0) { printbro(3); }
WhileTokens ==
    <<KwWhile, TLParen, Numeral(<<"0">>), TRParen, TLBrace>> \o PrintTokens("3")
        \o <<TRBrace>>

\* Well-formed statements, each with the positions of the tokens that the
\* parse function of the statement passes to expect: = and ; of a let, the
\* ) of a parenthesis in its value, ( ) ; of a print, ( ) { of an if and the
\* { after its elsebro, ( ) { of a while
ExpectedTokens ==
    {<<LetTokens("a", <<"5">>), {3, 5}>>,
     <<ParenLetTokens, {3, 6, 7}>>,
     <<PrintTokens("7"), {2, 4, 5}>>,
     <<IfElseTokens, {2, 4, 5, 13}>>,
     <<WhileTokens, {2, 4, 5}>>}

\* The well-formed statement that follows: printbro(9);
FollowingTokens == PrintTokens("9")

\* A statement that lacks one of its expected tokens, then printbro(9);
MissingTokenInputs ==
    UNION {{RemoveAt(e[1], i) \o FollowingTokens : i \in e[2]} : e \in ExpectedTokens}

\* The statements as they should be, then printbro(9);
WellFormedInputs == {e[1] \o FollowingTokens : e \in ExpectedTokens}

\* The whole chain on these token streams
InitRecover ==
    /\ Constructed
    /\ tokens \in MissingTokenInputs \cup WellFormedInputs
    /\ program = Program(<<>>)
    /\ pc = "parse"

SpecRecover == InitRecover /\ [][NextFront]_vars

\* C24: a statement with a missing required token is skipped and parsing
\* continues: when expect fails inside a let, print, if or while statement,
\* parseProgram adds no node for that statement to the Program, neither the
\* statement itself nor any statement nested inside it appears in the
\* returned Program, and the well-formed statements that follow it are
\* still parsed and added in order.
MissingTokenSkipsStatement ==
    (tokens \in MissingTokenInputs /\ pc # "parse") =>
        program = Program(<<PrintStatement(Num(9))>>)

(***************************************************************************)
(* PUSH and POP                                                            *)
(***************************************************************************)
\* The field of the registers that register number r selects
registerName(r) == CASE r = 0 -> "ax" [] r = 1 -> "bx" [] r = 2 -> "cx" [] r = 3 -> "dx"

\* PUSH r with SP >= 2 stores the low byte of the selected register at SP-2
\* and its high byte at SP-1, sets SP to SP-2 and changes no other byte and
\* no other register but ip, which the fetch has moved
PushStores ==
    (pc = "loaded" /\ nextOpcode = PUSH /\ nextOperand \in 0..3 /\ cpu.sp >= 2) =>
        /\ pc' = "loaded"
        /\ MemRead(memory', cpu.sp - 2) = registerOf(cpu, nextOperand) % 256
        /\ MemRead(memory', cpu.sp - 1) = registerOf(cpu, nextOperand) \div 256
        /\ \A a \in (DOMAIN memory \cup DOMAIN memory') \ {cpu.sp - 2, cpu.sp - 1} :
              MemRead(memory', a) = MemRead(memory, a)
        /\ cpu' = [cpu EXCEPT !.sp = cpu.sp - 2, !.ip = U16(cpu.ip + 3)]

\* POP r with SP <= 65534 loads the word whose low byte is at SP and whose
\* high byte is at SP+1 into the selected register, sets SP to SP+2 (which
\* wraps to 0 from 65534) and changes no memory byte and no other register
\* but ip
PopLoads ==
    (pc = "loaded" /\ nextOpcode = POP /\ nextOperand \in 0..3 /\ cpu.sp <= 65534) =>
        /\ pc' = "loaded"
        /\ memory' = memory
        /\ cpu' = [[cpu EXCEPT !.sp = (cpu.sp + 2) % 65536, !.ip = U16(cpu.ip + 3)]
                       EXCEPT ![registerName(nextOperand)] =
                           MemRead(memory, cpu.sp) + 256 * MemRead(memory, cpu.sp + 1)]

\* Where the turn after a PUSH r executes a POP r2, that POP leaves in
\* register r2 what r held before the PUSH, and SP as it was before the PUSH
PushThenPop ==
    (pc = "loaded" /\ nextOpcode = PUSH /\ nextOperand \in 0..3 /\ cpu.sp >= 2) =>
        \A f2 \in {fetchNextInstruction(nextTurn.cpu, nextTurn.memory)} :
            (f2.instr.op = POP /\ f2.instr.a1 \in 0..3) =>
                \A s2 \in {executeInstruction(f2.instr, [nextTurn.cpu EXCEPT !.ip = f2.ip],
                                              nextTurn.memory)} :
                    /\ s2.error = ""
                    /\ registerOf(s2.cpu, f2.instr.a1) = registerOf(cpu, nextOperand)
                    /\ s2.cpu.sp = cpu.sp
                    /\ \A r \in 0..3 \ {f2.instr.a1} :
                          registerOf(s2.cpu, r) = registerOf(cpu, r)

\* C25: PUSH r with SP >= 2 stores the selected register's low byte at SP-2
\* and high byte at SP-1 and sets SP to SP-2, changing no other byte or
\* register; POP r with SP <= 65534 loads the little-endian word at SP into
\* the selected register and sets SP to SP+2 without changing memory; hence
\* PUSH r immediately followed by POP r' copies r into r' and restores SP.
PushPopMoveWords == []PushThenPop /\ [][PushStores /\ PopLoads]_vars

\* PUSH 0; POP 3 from SP = 3 have copied AX = 515 into DX through the bytes
\* 1 and 2 of memory
CopiedThroughStack ==
    /\ bytecode \in PushPopPrograms
    /\ bytecode[5].a1 = 3
    /\ bytecode[6].a1 = 0
    /\ bytecode[7].a1 = 3
    /\ pc = "halted"
    /\ cpu.dx = 515
    /\ cpu.ax = 515
    /\ cpu.sp = 3
    /\ MemRead(memory, 1) = 3 /\ MemRead(memory, 2) = 2

(***************************************************************************)
(* Fetch, then execute: IP and the jumps                                   *)
(***************************************************************************)
\* The operand of the instruction at ip: the little-endian word at ip + 1
immediate == MemRead(memory, U16(cpu.ip + 1)) + 256 * MemRead(memory, U16(cpu.ip + 2))

\* Whether the instruction at ip is a jump that is taken
jumpTaken ==
    \/ nextOpcode = JMP
    \/ nextOpcode = JZ /\ cpu.ax = 0
    \/ nextOpcode = JNZ /\ cpu.ax # 0

\* A turn on an opcode of the table leaves ip at the operand for a jump
\* that is taken and at the old ip plus the opcode's width otherwise, fatal
\* turns included; a jump changes nothing but ip
IPAfterTurn ==
    (pc = "loaded" /\ nextOpcode \in Opcodes) =>
        /\ cpu'.ip = IF jumpTaken THEN immediate
                     ELSE (cpu.ip + widthOf(nextOpcode)) % 65536
        /\ nextOpcode \in {JMP, JZ, JNZ} =>
              /\ [cpu' EXCEPT !.ip = cpu.ip] = cpu
              /\ memory' = memory
              /\ stdout' = stdout
              /\ pc' = "loaded"

\* The operand an instruction of width 3 works with is the word at ip + 1:
\* the five MOVs store it, PUSH and POP select their register by it
OperandIsWordAtIP ==
    (pc = "loaded" /\ widthOf(nextOpcode) = 3) =>
        /\ nextOperand = immediate
        /\ nextOpcode = MOV => cpu'.ax = immediate
        /\ nextOpcode = MOV_BX => cpu'.bx = immediate
        /\ nextOpcode = MOV_CX => cpu'.cx = immediate
        /\ nextOpcode = MOV_DX => cpu'.dx = immediate
        /\ nextOpcode = MOV_SP => cpu'.sp = immediate

\* C26: each step reads the opcode at IP and its operand as the
\* little-endian word at IP+1, advances IP by the opcode's width, and only
\* then executes: JMP sets IP to imm1; JZ sets IP to imm1 exactly when
\* AX == 0 and JNZ exactly when AX != 0; a jump that is not taken, and every
\* non-jump instruction, leaves IP at old IP + width.
FetchThenExecute == [][IPAfterTurn /\ OperandIsWordAtIP]_vars

\* MOV 10; JZ 515 has not jumped: ip is 6; the program would have jumped
\* with AX = 0
JumpNotTaken ==
    /\ Len(bytecode) = 2
    /\ bytecode[1] = Instruction(MOV, 10)
    /\ bytecode[2].op = JZ /\ bytecode[2].a1 = 515
    /\ pc = "loaded"
    /\ cpu.ax = 10
    /\ cpu.ip = 6

(***************************************************************************)
(* ADD, SUB, MUL, DIV (RohitVM.cpp, executeInstruction)                    *)
(***************************************************************************)

\* The next turn executes an arithmetic instruction that is not a division by 0
ArithmeticTurn ==
    /\ pc = "loaded"
    /\ nextOpcode \in {ADD, SUB, MUL, DIV}
    /\ nextOpcode = DIV => cpu.bx # 0

\* (a * b) modulo 2^16, by the two bytes of a
productModWord(a, b) == ((a % Byte) * b + (((a \div Byte) * b) % Word) * Byte) % Word

\* The word the arithmetic instruction op is to leave in AX, from AX = a, BX = b
arithmeticResult(op, a, b) ==
    CASE op = ADD -> (a + b) % Word
      [] op = SUB -> (a - b) % Word
      [] op = MUL -> productModWord(a, b)
      [] op = DIV -> a \div b

PreludeInstructions == emitPrelude(FreshCodegen).instructions

PreludeBytes == encodeFrom(PreludeInstructions, 1)

\* The bytes from ip on are the prelude
PreludeIsNext ==
    /\ pc = "loaded"
    /\ \A i \in 1..Len(PreludeBytes) : MemRead(memory, U16(cpu.ip + i - 1)) = PreludeBytes[i]

\* The two bytes below SP exist and are none of the prelude's bytes
TwoFreeStackBytes ==
    /\ cpu.sp >= 2
    /\ \A a \in {cpu.sp - 2, cpu.sp - 1} : U16(a - cpu.ip) >= Len(PreludeBytes)

\* n more turns of VM::execute's loop after the run s (none after a fatal one)
RECURSIVE turnsFrom(_, _)
turnsFrom(s, n) ==
    IF n = 0 \/ s.error # "" THEN s
    ELSE CHOOSE res \in {turnsFrom(t, n - 1) : t \in {turn(s)}} : TRUE

\* The run of as many turns as the prelude has instructions, from this state
afterPrelude ==
    turnsFrom(turn([cpu |-> cpu, memory |-> memory, printed |-> <<>>, lines |-> <<>>]),
              Len(PreludeInstructions) - 1)

\* C28: the prelude, executed from AX = c with at least two free stack bytes,
\* ends with AX = (0 - c) mod 2^16 (so AX = 0 exactly when c = 0), the Equal
\* flag cleared, the other flags unchanged and SP restored.
PreludeNegatesAX ==
    (PreludeIsNext /\ TwoFreeStackBytes) =>
        \A s \in {afterPrelude} :
            /\ s.error = ""
            /\ s.cpu.ip = U16(cpu.ip + Len(PreludeBytes))
            /\ s.cpu.ax = (0 - cpu.ax) % Word
            /\ (s.cpu.ax = 0) <=> (cpu.ax = 0)
            /\ bitOf(s.cpu.flags, FlagEqual) = 0
            /\ \A mask \in {FlagGreater, FlagHigher, FlagLower} :
                  bitOf(s.cpu.flags, mask) = bitOf(cpu.flags, mask)
            /\ s.cpu.flags \div 16 = cpu.flags \div 16
            /\ s.cpu.sp = cpu.sp

\* The prelude has run from AX = 65535 with Greater and Lower set and SP at
\* the top: AX = 1 was printed, BX holds the old AX, the flags and SP are back
PreludeRanFromLargestWord ==
    /\ bytecode \in PreludePrograms
    /\ bytecode[1].op = STG
    /\ bytecode[3].a1 = 65535
    /\ bytecode[4].a1 = 65535
    /\ pc = "halted"
    /\ stdout = <<1>>
    /\ cpu.ax = 1
    /\ cpu.bx = 65535
    /\ cpu.flags = FlagGreater + FlagLower
    /\ cpu.sp = 65535

(***************************************************************************)
(* Comparisons as conditions (codegen.cpp, genExpression and genStatement) *)
(***************************************************************************)
ComparisonOps == {"Equal", "Greater", "Less"}

\* The operands compared: the two variables, a number, and a sum
CompareOperands == {Var(NameA), Var(NameB), Num(5), BinaryExpr("Add", Var(NameB), Num(2))}

\* letbro a = va; letbro b = vb; then ifbro (c) { printbro(1); } elsebro
\* { printbro(2); } or whilebro (c) { printbro(1); }
CompareProgram(va, vb, c, loop) ==
    Program(<<LetStatement(NameA, Num(va)), LetStatement(NameB, Num(vb)),
              IF loop THEN WhileStatement(c, <<PrintStatement(Num(1))>>)
              ELSE IfStatement(c, <<PrintStatement(Num(1))>>, <<PrintStatement(Num(2))>>)>>)

ComparePrograms ==
    {CompareProgram(va, vb, BinaryExpr(op, l, r), loop) :
        va \in {2, 5}, vb \in {3, 5}, op \in ComparisonOps,
        l \in CompareOperands, r \in CompareOperands, loop \in BOOLEAN}

InitCompare ==
    /\ Constructed
    /\ tokens = <<>>
    /\ program \in ComparePrograms
    /\ pc = "start"

SpecCompare == InitCompare /\ [][Next]_vars

\* The condition of the If or While of a compared program, and the values
\* the program's two Lets give its variables
comparison == program.statements[3].condition
comparedEnv == (NameA :> program.statements[1].value.value)
                  @@ (NameB :> program.statements[2].value.value)

\* The flag a comparison operator's code sets
flagOf(op) ==
    CASE op = "Equal" -> FlagEqual
      [] op = "Greater" -> FlagGreater
      [] op = "Less" -> FlagLower

\* The index (0-based) of the JZ that follows the condition and its prelude
conditionJump == (CHOOSE i \in 1..Len(bytecode) : bytecode[i].op = JZ) - 1

\* The VM is about to execute instruction n (0-based) of the loaded list
aboutToExecute(n) == pc = "loaded" /\ cpu.ip = byteOffset(bytecode, n)

\* The code of the comparison has run: AX is left - right, the flag is set
ComparisonLeavesDifference ==
    aboutToExecute(conditionJump - Len(PreludeInstructions)) =>
        /\ cpu.ax = (valueOf(comparison.left, comparedEnv)
                        - valueOf(comparison.right, comparedEnv)) % Word
        /\ bitOf(cpu.flags, flagOf(comparison.op)) = 1

\* At the JZ the condition counts as true (AX # 0, the jump is not taken)
\* exactly when the operands differ
ConditionTrueWhenOperandsDiffer ==
    aboutToExecute(conditionJump) =>
        ((cpu.ax # 0) <=> (valueOf(comparison.left, comparedEnv)
                               # valueOf(comparison.right, comparedEnv)))

\* C29: for Binary(Equal | Greater | Less, L, R) the emitted code leaves
\* AX = (value of L - value of R) mod 2^16 and sets the Equal, Greater or
\* Lower flag whatever the operands; as the condition of an If or a While it
\* is treated as true exactly when L and R differ.
ComparisonIsDifference ==
    ComparisonLeavesDifference /\ ConditionTrueWhenOperandsDiffer

(***************************************************************************)
(* Where the jumps of If and While point (codegen.cpp, genStatement,       *)
(* markLabel, patchJumps)                                                  *)
(***************************************************************************)
\* The number of instructions genExpression emits for e when the names in
\* bound are in the symbol table
RECURSIVE exprLength(_, _)
exprLength(e, bound) ==
    CASE e.kind = "Number" -> 1
      [] e.kind = "Variable" -> IF e.name \in bound THEN 2 ELSE 1
      [] e.kind = "Binary" ->
            exprLength(e.left, bound) + 1 + exprLength(e.right, bound) + 3
                + (IF e.op \in ComparisonOps THEN 2 ELSE 1)

\* A walk over the statements in the order genStatement comes to them: pos is
\* the index (0-based) of the next instruction to be emitted, bound the names
\* bound so far, ok whether every If and While met so far has its JZ and its
\* JMP in code at the expected index with the expected operand
RECURSIVE walkBlock(_, _, _, _)
RECURSIVE walkStatement(_, _, _)
walkBlock(stmts, i, w, code) ==
    IF i > Len(stmts) THEN w
    ELSE walkBlock(stmts, i + 1, walkStatement(stmts[i], w, code), code)

jumpAt(code, index, op, operand) ==
    /\ index + 1 \in DOMAIN code
    /\ code[index + 1].op = op
    /\ code[index + 1].a1 = operand

walkStatement(st, w, code) ==
    CASE st.kind = "Let" ->
            [w EXCEPT !.pos = @ + exprLength(st.value, w.bound) + 2,
                      !.bound = @ \cup {st.name}]
      [] st.kind = "Print" ->
            [w EXCEPT !.pos = @ + exprLength(st.expr, w.bound) + 1]
      [] st.kind = "If" ->
            LET jz  == w.pos + exprLength(st.condition, w.bound) + Len(PreludeInstructions)
                t   == walkBlock(st.thenBranch, 1, [w EXCEPT !.pos = jz + 1], code)
                jmp == t.pos
                e   == walkBlock(st.elseBranch, 1, [t EXCEPT !.pos = jmp + 1], code)
            IN  [e EXCEPT !.ok = /\ @
                                 /\ jumpAt(code, jz, JZ, jmp + 1)
                                 /\ jumpAt(code, jmp, JMP, e.pos)]
      [] st.kind = "While" ->
            LET jz  == w.pos + exprLength(st.condition, w.bound) + Len(PreludeInstructions)
                b   == walkBlock(st.body, 1, [w EXCEPT !.pos = jz + 1], code)
                jmp == b.pos
            IN  [b EXCEPT !.pos = jmp + 1,
                          !.ok = /\ @
                                 /\ jumpAt(code, jz, JZ, jmp + 1)
                                 /\ jumpAt(code, jmp, JMP, w.pos)]

walked == walkBlock(program.statements, 1, [ok |-> TRUE, pos |-> 0, bound |-> {}], bytecode)

\* C30: in generate's output, for every While the JZ operand is the index of
\* the instruction right after the loop's closing JMP and that JMP's operand
\* is the index of the first instruction of the condition code; for every If
\* the JZ operand is the index of the first instruction after the
\* then-block's JMP and the JMP operand is the index of the first instruction
\* after the else-block; nested and consecutive statements included.
JumpsPointAtTheirOwnLabels ==
    pc = "generated" =>
        /\ walked.ok
        /\ walked.pos = Len(bytecode) - 1

\* generate has returned the code of letbro b = 1; letbro a = b;
\* whilebro (a) { ifbro (b) { } elsebro { } }: the While's JZ at 15 points
\* behind its JMP at 26, which points at the condition at 7; the If's JZ at
\* 24 and JMP at 25 both point at 26
NestedJumpsGenerated ==
    /\ pc = "generated"
    /\ program = ProgramReused
    /\ jumpAt(bytecode, 15, JZ, 27)
    /\ jumpAt(bytecode, 26, JMP, 7)
    /\ jumpAt(bytecode, 24, JZ, 26)
    /\ jumpAt(bytecode, 25, JMP, 26)

(***************************************************************************)
(* The memory HLT dumps (RohitVM.cpp, executeInstruction, case HLT)        *)
(***************************************************************************)
\* The hex line of the dump, the last line HLT wrote before "Program Halted."
dumpLine == console[Len(console) - 1]

\* C31, as stated: the memory range dumped by HLT is exactly the last 32 bytes of
\* memory, the addresses 0xFFE0 through 0xFFFF: the byte at 0xFFFF is
\* included and the byte at 0xFFDF is not.
DumpIsLast32Bytes ==
    pc = "halted" => dumpLine = printhex(memory, MemorySize - 32, 32)

\* The number a hex digit stands for
hexValue(ch) == (CHOOSE i \in 1..16 : HexDigits[i] = ch) - 1

DumpedBytes == 32

\* C31 (amended): the dump shows, two hex digits and a blank each, the 32 bytes from 0xFFDF
\* (memory.raw() + 0xFFFF - 32) through 0xFFFE: the byte at 0xFFDF is
\* included and the byte at 0xFFFF is not
DumpIsBelowLastByte ==
    pc = "halted" =>
        /\ Len(dumpLine) = 3 * DumpedBytes
        /\ \A i \in 0..(DumpedBytes - 1) :
              /\ 16 * hexValue(dumpLine[3 * i + 1]) + hexValue(dumpLine[3 * i + 2])
                    = MemRead(memory, (MemorySize - 1 - DumpedBytes) + i)
              /\ dumpLine[3 * i + 3] = " "

\* AX = 515 was pushed from SP = 0xFFE1 and the VM halted: the dump begins
\* with 03, the byte at 0xFFDF, and goes on with 02, the byte at 0xFFE0
DumpShowsByteBelowRange ==
    /\ pc = "halted"
    /\ bytecode \in DumpPrograms
    /\ bytecode[2].a1 = 65505
    /\ MemRead(memory, 65503) = 3
    /\ MemRead(memory, 65504) = 2
    /\ SubSeq(dumpLine, 1, 6) = <<"0", "3", " ", "0", "2", " ">>

(***************************************************************************)
(* The width the fetch determines (RohitVM.cpp, fetchNextInstruction and   *)
(* getInstructionSize)                                                     *)
(***************************************************************************)
\* C32, as stated: for every byte value found at IP, known opcode or not, the width
\* determined by the fetch is 1, 3 or 5, so every fetch strictly advances IP
\* (modulo 2^16) before dispatch.
EveryFetchAdvancesIP ==
    pc = "loaded" =>
        /\ getInstructionSize(nextOpcode) \in {1, 3, 5}
        /\ fetchNextInstruction(cpu, memory).ip # cpu.ip

\* The fetch of an opcode of the table moves ip by 1 or 3 bytes (no opcode
\* has the width 5); the fetch of any other byte leaves ip where it is
FetchWidth ==
    pc = "loaded" =>
        /\ nextOpcode \in Opcodes =>
              /\ getInstructionSize(nextOpcode) \in {1, 3}
              /\ fetched.ip = (cpu.ip + getInstructionSize(nextOpcode)) % Word
              /\ fetched.ip # cpu.ip
        /\ nextOpcode \notin Opcodes =>
              /\ getInstructionSize(nextOpcode) = 0
              /\ fetched.ip = cpu.ip

\* The turn on a byte outside the table leaves ip on that byte and is the
\* last; the turn on an opcode that does not jump leaves ip 1 or 3 bytes on
FetchWidthTurn ==
    pc = "loaded" =>
        /\ nextOpcode \notin Opcodes =>
              /\ cpu'.ip = cpu.ip
              /\ pc' = "error"
              /\ stderr' = "Illegal Instruction"
        /\ (nextOpcode \in Opcodes /\ ~jumpTaken) =>
              /\ cpu'.ip # cpu.ip
              /\ (cpu'.ip - cpu.ip) % Word \in {1, 3}

\* C32 (amended): for every opcode of the table the width determined by the
\* fetch is 1 or 3 and the fetch advances IP by it (modulo 2^16) before
\* dispatch; for any other byte the width is 0, the fetch leaves IP on that
\* byte, and the dispatch ends the run in "Illegal Instruction".
FetchAdvancesOnKnownOpcodes == []FetchWidth /\ [][FetchWidthTurn]_vars

\* MOV 10; NOP have run and the zero byte behind them has ended the run: ip
\* is still 4, the address of that byte
StoppedOnUnknownByte ==
    /\ bytecode = <<Instruction(MOV, 10), Instruction(NOP, 0)>>
    /\ pc = "error"
    /\ stderr = "Illegal Instruction"
    /\ cpu.ax = 10
    /\ cpu.ip = 4
    /\ breakLine = 4
    /\ MemRead(memory, cpu.ip) \notin Opcodes

(***************************************************************************)
(* Reads of names that have no binding (codegen.cpp, genExpression)        *)
(***************************************************************************)
\* Whether code holds, from index pos (0-based) on, MOV 0 for every read in e
\* of a name outside bound, and PUSH <index>; POP 0 for every read of a name
\* in bound
RECURSIVE readsLowered(_, _, _, _)
readsLowered(e, pos, bound, code) ==
    CASE e.kind = "Variable" ->
            IF e.name \in bound
            THEN /\ pos + 2 \in DOMAIN code
                 /\ code[pos + 1].op = PUSH
                 /\ code[pos + 2] = Instruction(POP, 0)
            ELSE /\ pos + 1 \in DOMAIN code
                 /\ code[pos + 1] = Instruction(MOV, 0)
      [] e.kind = "Binary" ->
            /\ readsLowered(e.left, pos, bound, code)
            /\ readsLowered(e.right, pos + exprLength(e.left, bound) + 1, bound, code)
      [] OTHER -> TRUE

\* The walk of walkBlock, with ok telling whether every read met so far is
\* lowered as readsLowered says
RECURSIVE walkReads(_, _, _, _)
RECURSIVE walkReadsIn(_, _, _)
walkReads(stmts, i, w, code) ==
    IF i > Len(stmts) THEN w
    ELSE walkReads(stmts, i + 1, walkReadsIn(stmts[i], w, code), code)

walkReadsIn(st, w, code) ==
    CASE st.kind = "Let" ->
            [ok |-> w.ok /\ readsLowered(st.value, w.pos, w.bound, code),
             pos |-> w.pos + exprLength(st.value, w.bound) + 2,
             bound |-> w.bound \cup {st.name}]
      [] st.kind = "Print" ->
            [w EXCEPT !.ok = @ /\ readsLowered(st.expr, w.pos, w.bound, code),
                      !.pos = @ + exprLength(st.expr, w.bound) + 1]
      [] st.kind = "If" ->
            LET jz == w.pos + exprLength(st.condition, w.bound) + Len(PreludeInstructions)
                t  == walkReads(st.thenBranch, 1, [w EXCEPT !.pos = jz + 1], code)
                e  == walkReads(st.elseBranch, 1, [t EXCEPT !.pos = @ + 1], code)
            IN  [e EXCEPT !.ok = @ /\ readsLowered(st.condition, w.pos, w.bound, code)]
      [] st.kind = "While" ->
            LET jz == w.pos + exprLength(st.condition, w.bound) + Len(PreludeInstructions)
                b  == walkReads(st.body, 1, [w EXCEPT !.pos = jz + 1], code)
            IN  [b EXCEPT !.pos = @ + 1,
                          !.ok = @ /\ readsLowered(st.condition, w.pos, w.bound, code)]

readsWalked == walkReads(program.statements, 1, [ok |-> TRUE, pos |-> 0, bound |-> {}], bytecode)

\* C33: reading a variable that has no binding at that point of the lowering
\* (a name read inside the value of its own first Let included) emits
\* exactly MOV 0 in place of the read and allocates no index for the name,
\* and generate goes on: it lowers every remaining statement and returns a
\* list that ends with HLT.
UnboundReadIsMovZero ==
    pc = "generated" =>
        /\ readsWalked.ok
        /\ readsWalked.pos = Len(bytecode) - 1
        /\ bytecode[Len(bytecode)].op = HLT
        /\ DOMAIN cg.symbolTable = boundNames(program)
        /\ cg.nextRegister = 1 + Cardinality(boundNames(program))

\* generate has returned the code of letbro a = a; printbro(b);: MOV 0 for
\* the read of a, a bound to index 1, MOV 0 for the read of b, b not bound
UnboundReadsGenerated ==
    /\ pc = "generated"
    /\ program = Program(<<LetStatement(NameA, Var(NameA)), PrintStatement(Var(NameB))>>)
    /\ bytecode = <<Instruction(MOV, 0), Instruction(PUSH, 0), Instruction(POP, 1),
                    Instruction(MOV, 0), Instruction(PRN, 0), Instruction(HLT, 0)>>
    /\ DOMAIN cg.symbolTable = {NameA}

(***************************************************************************)
(* The lexer (lexer.cpp; the loop of broc.cpp, step 2)                     *)
(***************************************************************************)
\* The characters the short sources are written with: a blank, a newline,
\* '=', '<', ';', a letter, a digit and '#', which is outside the language
SourceChars == {" ", "\n", "=", "<", ";", "a", "1", "#"}

MaxSource == 4      \* longest source written with SourceChars

RECURSIVE SourcesUpTo(_)
SourcesUpTo(n) ==
    IF n = 0 THEN {<<>>}
    ELSE SourcesUpTo(n - 1) \cup
         {Append(s, c) : s \in {t \in SourcesUpTo(n - 1) : Len(t) = n - 1}, c \in SourceChars}

\* Sources with keywords, names that begin like keywords, numbers followed by
\* letters, runs of '=' and characters outside the language
LongSources ==
    {<<"l", "e", "t", "b", "r", "o", " ", "a", "=", "1", ";">>,
     <<"l", "e", "t", "b", "r", "o", "x", "\t", "=", "=", "=", "1", "0">>,
     <<"i", "f", "b", "r", "o", "(", "a", "=", "=", "b", ")", "{", "}",
       "e", "l", "s", "e", "b", "r", "o", "{", "}">>,
     <<"w", "h", "i", "l", "e", "b", "r", "o", "(", "n", ">", "0", ")", "\n",
       "p", "r", "i", "n", "t", "b", "r", "o", "(", "n", "*", "2", "-", "1", "/", "3", "+", "4", ")">>,
     <<"1", "2", "a", "b", "_", "Z", "9", "!", "!", " ", "@", "=", " ", "=", "\r", "\f">>,
     <<"=", "=", "=", "=", "#", "=">>}

Sources == SourcesUpTo(MaxSource) \cup LongSources

\* Lexer lexer(source) and the empty token vector, before the first nextToken
InitLex ==
    /\ cg = FreshCodegen /\ k = 0 /\ bytecode = <<>> /\ artifact = <<>>
    /\ cpu = InitialRegisters /\ memory = EmptyMap /\ breakLine = 0
    /\ stdout = <<>> /\ stderr = "" /\ console = <<>> /\ cli = NotInvoked
    /\ program = Program(<<>>)
    /\ tokens = <<>>
    /\ lexer \in {Lexer(source) : source \in Sources}
    /\ pc = "lex"

\* One turn of main's loop: Token t = lexer.nextToken(); break at EndOfFile,
\* tokens.push_back(t) otherwise
NextToken ==
    /\ pc = "lex"
    /\ \E r \in {nextToken(lexer.src, lexer.pos)} :
          /\ lexer' = [lexer EXCEPT !.pos = r.pos]
          /\ IF r.token.type = "EndOfFile"
             THEN tokens' = tokens /\ pc' = "parse"
             ELSE tokens' = Append(tokens, r.token) /\ pc' = "lex"
    /\ UNCHANGED <<artifact, program, cg, k, bytecode, cpu, memory, breakLine,
                   stdout, stderr, console, cli>>

\* The loop goes on until it breaks
SpecLex == InitLex /\ [][NextToken]_vars /\ WF_vars(NextToken)

\* src without its whitespace
withoutWhitespace(src) == SelectSeq(src, LAMBDA c : c \notin Whitespace)

\* The texts of the tokens, one after the other
RECURSIVE concatenation(_)
concatenation(toks) ==
    IF toks = <<>> THEN <<>>
    ELSE concatenation(SubSeq(toks, 1, Len(toks) - 1)) \o toks[Len(toks)].text

\* The characters of the language
Language == Whitespace \cup Letters \cup Digits \cup Symbols \cup {"="}

\* The position of the first character at or after the lexer's position that
\* is no whitespace, Len(src) when there is none
nextVisible ==
    CHOOSE p \in lexer.pos..Len(lexer.src) :
        /\ \A q \in lexer.pos..(p - 1) : lexer.src[q + 1] \in Whitespace
        /\ p < Len(lexer.src) => lexer.src[p + 1] \notin Whitespace

\* The texts of the tokens so far are the consumed part of the source without
\* its whitespace; once the loop has ended the whole source is consumed
NothingLost ==
    pc \in {"lex", "parse"} =>
        /\ lexer.pos <= Len(lexer.src)
        /\ concatenation(tokens) = withoutWhitespace(SubSeq(lexer.src, 1, lexer.pos))
        /\ pc = "parse" => lexer.pos = Len(lexer.src)
        /\ \A i \in 1..Len(tokens) :
              /\ tokens[i].type = "Equal" <=> tokens[i].text = <<"=", "=">>
              /\ tokens[i].type = "Assign" <=> tokens[i].text = <<"=">>
              /\ tokens[i].type = "Invalid" =>
                    Len(tokens[i].text) = 1 /\ tokens[i].text[1] \notin Language

\* A call of nextToken returns EndOfFile exactly when only whitespace is
\* left; otherwise it consumes at least one character and adds one token:
\* Equal for "==", Assign for a '=' not followed by '=', and for a character
\* outside the language one Invalid token of that character alone
OneTokenPerCall ==
    pc = "lex" =>
        IF nextVisible = Len(lexer.src)
        THEN tokens' = tokens /\ pc' = "parse"
        ELSE /\ pc' = "lex"
             /\ Len(tokens') = Len(tokens) + 1
             /\ SubSeq(tokens', 1, Len(tokens)) = tokens
             /\ lexer'.pos > lexer.pos
             /\ lexer'.pos = nextVisible + Len(tokens'[Len(tokens')].text)
             /\ \A c \in {lexer.src[nextVisible + 1]} :
                   /\ (c = "=" /\ peekChar(lexer.src, nextVisible + 1) = "=")
                         => tokens'[Len(tokens')] = Token("Equal", <<"=", "=">>)
                   /\ (c = "=" /\ peekChar(lexer.src, nextVisible + 1) # "=")
                         => tokens'[Len(tokens')] = Token("Assign", <<"=">>)
                   /\ c \notin Language => tokens'[Len(tokens')] = Token("Invalid", <<c>>)

\* C34: lexing never aborts and loses nothing: for every input without NUL
\* characters, repeated nextToken calls reach EndOfFile after finitely many
\* tokens, each call that returns a token consuming at least one character;
\* the concatenation of the token texts equals the input with whitespace
\* removed; "==" is always one Equal token and a lone '=' an Assign token;
\* every character outside the language yields exactly one single-character
\* Invalid token.
LexingLosesNothing ==
    /\ []NothingLost
    /\ [][OneTokenPerCall]_vars
    /\ <>(pc = "parse")

\* ====#= has been lexed: Equal, Equal, Invalid '#', Assign
LexedEqualsAndInvalid ==
    /\ pc = "parse"
    /\ lexer.src = <<"=", "=", "=", "=", "#", "=">>
    /\ tokens = <<Token("Equal", <<"=", "=">>), Token("Equal", <<"=", "=">>),
                  Token("Invalid", <<"#">>), Token("Assign", <<"=">>)>>

(***************************************************************************)
(* The value a variable holds between its Let and a later read             *)
(***************************************************************************)
\* What runs between the Lets and the read: nothing, a Print of a number, of
\* a variable and of Binary expressions, a Let of another name, an If and a
\* While with their condition preludes
KeepBetween ==
    {<<>>,
     <<PrintStatement(Num(7))>>,
     <<PrintStatement(Var(NameB))>>,
     <<PrintStatement(BinaryExpr("Mul", Var(NameB), Num(2)))>>,
     <<PrintStatement(BinaryExpr("Add", Var(NameA), Var(NameB)))>>,
     <<LetStatement(NameN, Num(9))>>,
     <<LetStatement(NameN, BinaryExpr("Sub", Num(9), Num(1)))>>,
     <<LetStatement(NameN, Num(9)), PrintStatement(Var(NameN))>>,
     <<IfStatement(Num(0), <<>>, <<>>)>>,
     <<IfStatement(Num(1), <<PrintStatement(Num(1))>>, <<>>)>>,
     <<WhileStatement(Num(0), <<>>)>>}

\* letbro a = 3; letbro b = 4; in either order, the code in between, and a
\* read of x: printbro(x);
KeepPrograms ==
    {Program(lets \o between \o <<PrintStatement(Var(x))>>) :
        lets \in {<<LetStatement(NameA, Num(3)), LetStatement(NameB, Num(4))>>,
                  <<LetStatement(NameB, Num(4)), LetStatement(NameA, Num(3))>>},
        between \in KeepBetween,
        x \in {NameA, NameB}}

InitKeep ==
    /\ Constructed
    /\ tokens = <<>>
    /\ program \in KeepPrograms
    /\ pc = "start"

SpecKeep == InitKeep /\ [][Next]_vars

\* The VM is about to execute the last statement's read of x, PUSH index
aboutToRead ==
    /\ pc = "loaded"
    /\ Len(bytecode) >= 4
    /\ cpu.ip = byteOffset(bytecode, Len(bytecode) - 4)

\* C35: a variable keeps its value until it is reassigned: after the code of
\* Let(x, e) has run, a later read of x yields the value that Let stored,
\* whatever other code runs in between (Binary expressions, If/While
\* condition preludes, Lets of other names, Prints): when the last
\* statement's read of x is about to execute, the register bound to x holds
\* 3 for a and 4 for b.
VariableKeepsValue ==
    aboutToRead =>
        registerOf(cpu, bytecode[Len(bytecode) - 3].a1)
            = (IF program.statements[Len(program.statements)].expr.name = NameA THEN 3 ELSE 4)

(***************************************************************************)
(* Runs of programs without While                                          *)
(***************************************************************************)
\* ifbro (c) { T } elsebro { E } tail, c a number
BareIfPrograms ==
    {Program(<<IfStatement(c, t, e)>> \o tail) :
        c \in {Num(0), Num(1)}, t \in ThenBlocks, e \in ElseBlocks, tail \in Tails}

\* Programs that contain no While statement
LoopFreePrograms ==
    {ProgramS1, ProgramS2, ProgramS3, ProgramS6} \cup IfPrograms \cup BareIfPrograms

InitLoopFree ==
    /\ Constructed
    /\ tokens = <<>>
    /\ program \in LoopFreePrograms
    /\ pc = "start"

\* generate, loadProgram and execute run on: execute's loop takes its next
\* turn as long as the VM has not stopped
SpecLoopFree == InitLoopFree /\ [][Next]_vars /\ WF_vars(Next)

\* The run is over: HLT was executed or a fatal error was reported
stopped == pc \in {"halted", "error"}

\* C36: for every Program that contains no While statement, executing
\* generate's output from the initial VM state eventually stops, by HLT or
\* by a fatal VM error.
LoopFreeRunStops == <>stopped

(***************************************************************************)
(* Labels: handed out, marked, referred to and patched                     *)
(***************************************************************************)
\* The number of If and While statements in stmts[i..], nested ones included
RECURSIVE controlCount(_, _)
controlCount(stmts, i) ==
    IF i > Len(stmts) THEN 0
    ELSE controlCount(stmts, i + 1) +
         (CASE stmts[i].kind = "If" ->
                   1 + controlCount(stmts[i].thenBranch, 1) + controlCount(stmts[i].elseBranch, 1)
            [] stmts[i].kind = "While" -> 1 + controlCount(stmts[i].body, 1)
            [] OTHER -> 0)

\* The 0-based indices of the JMP, JZ and JNZ instructions of a list
jumpIndices(code) == {j - 1 : j \in {i \in 1..Len(code) : code[i].op \in {JMP, JZ, JNZ}}}

\* The label tables of c for n If/While statements lowered so far, each of
\* which takes two labels, marks both and emits one jump to each: the ids
\* handed out are 0..2n-1, all of them marked, the placeholders are 2n
\* entries that refer to 2n different marked labels at 2n different
\* positions, and these positions are exactly the jumps of the list
labelsSound(c, n) ==
    /\ c.labelCounter = 2 * n
    /\ DOMAIN c.labelTargets = 0..(2 * n - 1)
    /\ Len(c.labelPlaceholders) = 2 * n
    /\ \A i \in 1..Len(c.labelPlaceholders) :
          c.labelPlaceholders[i][2] \in DOMAIN c.labelTargets
    /\ {c.labelPlaceholders[i][2] : i \in 1..Len(c.labelPlaceholders)} = 0..(2 * n - 1)
    /\ {c.labelPlaceholders[i][1] : i \in 1..Len(c.labelPlaceholders)}
           = jumpIndices(c.instructions)
    /\ Cardinality(jumpIndices(c.instructions)) = 2 * n
    /\ \A l \in DOMAIN c.labelTargets : c.labelTargets[l] \in 0..Len(c.instructions)

\* After every statement of generate's loop the tables are sound for the
\* statements lowered so far; after patchJumps they are sound for the whole
\* Program and every jump carries the target of its label
LabelsMarked ==
    /\ pc = "gen" =>
          labelsSound(cg, controlCount(SubSeq(program.statements, 1, k), 1))
    /\ pc = "generated" =>
          /\ labelsSound(cg, controlCount(program.statements, 1))
          /\ \A i \in 1..Len(cg.labelPlaceholders) :
                bytecode[cg.labelPlaceholders[i][1] + 1].a1
                    = cg.labelTargets[cg.labelPlaceholders[i][2]]

\* Lowering a further statement and patching leave every label marked
\* before where it was marked
MarkedOnce ==
    (pc = "gen" /\ pc' \in {"gen", "generated"}) =>
        /\ cg'.labelCounter >= cg.labelCounter
        /\ \A l \in DOMAIN cg.labelTargets :
              l \in DOMAIN cg'.labelTargets /\ cg'.labelTargets[l] = cg.labelTargets[l]
        /\ SubSeq(cg'.labelPlaceholders, 1, Len(cg.labelPlaceholders)) = cg.labelPlaceholders

\* C37: within generate, every label id returned by newLabel is unique and
\* is marked exactly once, and every jump placeholder refers to a marked
\* label; so patchJumps patches every JMP/JZ emitted and its unknown-label
\* branch is never taken.
EveryLabelMarkedAndPatched == []LabelsMarked /\ [][MarkedOnce]_vars

\* generate has returned the code of a While nested in an If nested in a
\* While, and of a further If: eight labels, eight patched jumps
EightLabelsPatched ==
    /\ pc = "generated"
    /\ cg.labelCounter = 8
    /\ Len(cg.labelPlaceholders) = 8
    /\ \E i \in 1..Len(program.statements) :
          /\ program.statements[i].kind = "While"
          /\ \E j \in 1..Len(program.statements[i].body) :
                /\ program.statements[i].body[j].kind = "If"
                /\ \E b \in {program.statements[i].body[j].thenBranch,
                             program.statements[i].body[j].elseBranch} :
                      \E m \in 1..Len(b) : b[m].kind = "While"

(***************************************************************************)
(* The progress of the parser on any token sequence                        *)
(***************************************************************************)
\* One token of every kind the parser looks for, an operator, a token the
\* lexer calls Invalid and an EndOfFile token
TokenAlphabet ==
    {KwLet, KwPrint, KwIf, KwElse, KwWhile, Ident("a"), Numeral(<<"1">>), TAssign,
     TPlus, TSemi, TLParen, TRParen, TLBrace, TRBrace,
     Token("Invalid", <<"#">>), Token("EndOfFile", <<>>)}

MaxTokens == 3      \* longest sequence written with TokenAlphabet

RECURSIVE TokenSeqsUpTo(_)
TokenSeqsUpTo(n) ==
    IF n = 0 THEN {<<>>}
    ELSE TokenSeqsUpTo(n - 1) \cup
         {Append(s, t) : s \in {u \in TokenSeqsUpTo(n - 1) : Len(u) = n - 1},
                         t \in TokenAlphabet}

\* whilebro (a < 2) { ifbro (a) { letbro a = (a + 1) * 2; } }
NestedTokens ==
    <<KwWhile, TLParen, Ident("a"), TLess, Numeral(<<"2">>), TRParen, TLBrace,
      KwIf, TLParen, Ident("a"), TRParen, TLBrace,
      KwLet, Ident("a"), TAssign, TLParen, Ident("a"), TPlus, Numeral(<<"1">>), TRParen,
      TStar, Numeral(<<"2">>), TSemi, TRBrace, TRBrace>>

\* printbro(99999999999); a number std::stoi does not take
HugeNumberTokens ==
    <<KwPrint, TLParen,
      Numeral(<<"9", "9", "9", "9", "9", "9", "9", "9", "9", "9", "9">>), TRParen, TSemi>>

WellFormedStreams == {TokensS3, NestedTokens, HugeNumberTokens \o PrintTokens("9")}

\* What may stand in the place of a token: tokens no statement begins with,
\* a keyword, an opening brace and an EndOfFile token
Replacements ==
    {TSemi, TRBrace, TLBrace, KwLet, Token("Invalid", <<"#">>), Token("EndOfFile", <<>>)}

\* The well-formed streams, cut off after any token, with any one token
\* missing and with any one token replaced
DamagedStreams ==
    UNION {{SubSeq(w, 1, n) : n \in 0..Len(w)}
           \cup {RemoveAt(w, i) : i \in 1..Len(w)}
           \cup {[w EXCEPT ![i] = t] : i \in 1..Len(w), t \in Replacements}
           : w \in WellFormedStreams}

ParseInputs == TokenSeqsUpTo(MaxTokens) \cup DamagedStreams

\* Parser parser(tokens), before parseProgram
InitParse ==
    /\ Constructed
    /\ tokens \in ParseInputs
    /\ program = Program(<<>>)
    /\ pc = "parse"

SpecParse == InitParse /\ [][Parse]_vars

\* Where parseProgram's loop is left
parsedUpTo == programLoop(tokens, Parsed(<<>>, 0)).pos

\* C38: parseProgram terminates on every finite token sequence, well-formed
\* or not: the token position never decreases, and every call of
\* parseStatement made by parseProgram or parseBlock (both call it only where
\* the tokens are not at their end) consumes at least one token, including
\* on unexpected tokens, unclosed blocks and input that ends in the middle
\* of a statement or expression. Leaving by an exception of std::stoi counts
\* as the position past the end.
ParserAlwaysAdvances ==
    /\ \A p \in 0..(Len(tokens) - 1) :
          ~isAtEnd(tokens, p) =>
              /\ parseStatement(tokens, p).pos > p
              /\ parseStatement(tokens, p).pos <= Len(tokens) + 1
    /\ \A p \in 0..Len(tokens) :
          /\ parseExpression(tokens, p).pos >= p
          /\ parseBlock(tokens, p).pos >= p
    /\ pc = "start" =>
          /\ isAtEnd(tokens, parsedUpTo)
          /\ program = parseProgram(tokens)
          /\ Len(program.statements) <= Len(tokens)

\* parseProgram has returned on letbro a = 5; ifbro (a == 5) { printbro(
\* with the Let and an If whose block is empty
ParsedUnclosedBlock ==
    /\ pc = "start"
    /\ tokens = SubSeq(TokensS3, 1, 14)
    /\ Len(program.statements) = 2
    /\ program.statements[2].kind = "If"
    /\ program.statements[2].thenBranch = <<>>

(***************************************************************************)
(* SP at the ends of the memory                                            *)
(***************************************************************************)
\* A PUSH or POP that completes moves SP by two, as numbers
SPMovesByTwo ==
    (pc = "loaded" /\ pc' = "loaded") =>
        /\ nextOpcode = POP => cpu'.sp = cpu.sp + 2
        /\ nextOpcode = PUSH => cpu'.sp = cpu.sp - 2

\* C39: SP never wraps around: in every reachable VM state (SP may have been
\* set by MOV_SP to any 16-bit value), a POP that completes without Stack
\* Underflow leaves SP numerically equal to old SP + 2 and a PUSH that
\* completes without Stack Overflow leaves SP numerically equal to old
\* SP - 2; neither ever changes SP by a 16-bit wraparound.
SPNeverWraps == [][SPMovesByTwo]_vars

=============================================================================
